---- MODULE Spec2Model ----
(***************************************************************************)
(* Protocol-translation pipeline of antigravity-server:                    *)
(*   - src/transform/schema-cleaner.ts   (cleanSchema and its phases)       *)
(*   - the OpenAI -> Antigravity request transformer (transformRequest)     *)
(*   - the streaming transformer (parseSSEChunk, transformAntigravityEvent) *)
(*   - the single-shot transformer (transformResponse)                      *)
(*   - the streaming route (handleStreamingRequest)                         *)
(*   - quota protection (checkModelQuota) and the chat-completions route    *)
(* JSON values are tagged records [k, v]; a JS object is a function from    *)
(* its keys to values (key order is not observable in any result below).    *)
(***************************************************************************)
EXTENDS Integers, Sequences, FiniteSets, TLC

VARIABLES
  pc,        \* position of the schema run: "idle" | "start" | "cleaned" | "recleaned" | "merged"
  schema,    \* the argument handed to cleanSchema
  result,    \* cleanSchema(schema), or TypeError when the call raised
  result2,   \* cleanSchema(result)
  rpc,       \* position of the request run: "idle" | "start" | "done"
  request,   \* the OpenAIRequest handed to transformRequest
  areq,      \* the AntigravityRequest it returned
  spc,       \* position of the stream: "idle" | "open" | "ended" | "failed" | "closed" | "start" | "parsed"
  state,     \* the TransformState of the stream
  events,    \* the events handed to transformAntigravityEvent so far
  chunks,    \* what the last call returned, or TypeError when it raised
  emitted,   \* every chunk returned on the stream, in order
  upstream,  \* the upstream response handed to transformResponse
  response,  \* the OpenAIResponse it returned
  delivered, \* how many parts of the upstream candidate the stream has carried
  body,      \* the upstream body: its SSE text, or null when there is none
  unread,    \* the part of it no read has delivered yet
  buffer,    \* handleStreamingRequest's buffer
  written,   \* what was written to the client, in order
  quotaCache, \* the module's quota cache, null until the first refresh
  wall,      \* Date.now()
  chat       \* the chat-completions request being handled, if any

schemaVars == <<pc, schema, result, result2>>
requestVars == <<rpc, request, areq>>
streamVars == <<spc, state, events, chunks, emitted>>
responseVars == <<upstream, response, delivered>>
handlerVars == <<body, unread, buffer, written>>
quotaVars == <<quotaCache, wall, chat>>
vars == <<pc, schema, result, result2, rpc, request, areq,
          spc, state, events, chunks, emitted,
          upstream, response, delivered, body, unread, buffer, written,
          quotaCache, wall, chat>>

-----------------------------------------------------------------------------
(* JavaScript values *)

JUndef == [k |-> "undefined", v |-> 0]
JNull == [k |-> "null", v |-> 0]
JStr(s) == [k |-> "string", v |-> s]
JNum(n) == [k |-> "number", v |-> n]
JBool(b) == [k |-> "boolean", v |-> b]
JObj(f) == [k |-> "object", v |-> f]
JArr(q) == [k |-> "array", v |-> q]

\* The outcome of a call that threw (reading a property of null, spreading
\* a non-iterable).
TypeError == [k |-> "TypeError", v |-> 0]

EmptyMap == [key \in {} |-> JUndef]

IsString(x) == x.k = "string"
IsArray(x) == x.k = "array"
\* typeof x === "object"   (null included, as in JavaScript)
TypeofObject(x) == x.k \in {"object", "array", "null"}
\* typeof x === "object" && x !== null
IsObjLike(x) == x.k \in {"object", "array"}

\* JavaScript truthiness (!!x)
Truthy(x) ==
  CASE x.k = "undefined" -> FALSE
    [] x.k = "null" -> FALSE
    [] x.k = "string" -> x.v # ""
    [] x.k = "number" -> x.v # 0
    [] x.k = "boolean" -> x.v
    [] OTHER -> TRUE

\* !schema || typeof schema !== "object"   (the guard that opens every phase)
NotASchema(x) == ~Truthy(x) \/ ~TypeofObject(x)

Range(q) == {q[i] : i \in DOMAIN q}

\* x.key
Get(x, key) ==
  IF x.k = "object" /\ key \in DOMAIN x.v THEN x.v[key] ELSE JUndef

\* { ...o, key: val }
Set(o, key, val) == JObj((key :> val) @@ o.v)

\* delete o.key
Del(o, key) == JObj([x \in (DOMAIN o.v) \ {key} |-> o.v[x]])

\* The own enumerable properties of x, as { ...x } copies them: an object's
\* entries, an array's or a string's elements under their index.
SpreadOf(x) ==
  CASE x.k = "object" -> x.v
    [] x.k = "array" ->
         [key \in {ToString(i - 1) : i \in DOMAIN x.v} |->
            LET i == CHOOSE j \in DOMAIN x.v : ToString(j - 1) = key IN x.v[i]]
    [] x.k = "string" ->
         [key \in {ToString(i - 1) : i \in 1..Len(x.v)} |->
            LET i == CHOOSE j \in 1..Len(x.v) : ToString(j - 1) = key
            IN JStr(SubSeq(x.v, i, i))]
    [] OTHER -> EmptyMap

\* Object.keys(x)
Keys(x) == DOMAIN SpreadOf(x)

\* Object.prototype.hasOwnProperty.call(x, key): an array also owns "length"
HasOwn(x, key) ==
  key \in Keys(x) \/ (x.k \in {"array", "string"} /\ key = "length")

-----------------------------------------------------------------------------
(* Strings *)

RECURSIVE JoinStrings(_, _)
JoinStrings(q, sep) ==
  IF Len(q) = 0 THEN ""
  ELSE IF Len(q) = 1 THEN q[1]
  ELSE q[1] \o sep \o JoinStrings(Tail(q), sep)

\* String(x) / `${x}`
RECURSIVE ToJSString(_)
ToJSString(x) ==
  CASE x.k = "string" -> x.v
    [] x.k = "number" -> ToString(x.v)
    [] x.k = "boolean" -> IF x.v THEN "true" ELSE "false"
    [] x.k = "null" -> "null"
    [] x.k = "undefined" -> "undefined"
    [] x.k = "object" -> "[object Object]"
    [] x.k = "array" ->
         JoinStrings([i \in DOMAIN x.v |->
                        IF x.v[i].k \in {"null", "undefined"} THEN ""
                        ELSE ToJSString(x.v[i])], ",")

\* q.join(sep) on an array of values
ArrayJoin(q, sep) ==
  JoinStrings([i \in DOMAIN q |->
                 IF q[i].k \in {"null", "undefined"} THEN ""
                 ELSE ToJSString(q[i])], sep)

\* hay.includes(needle)
Includes(hay, needle) ==
  \E i \in 1..(Len(hay) + 1) :
    /\ i + Len(needle) - 1 <= Len(hay)
    /\ SubSeq(hay, i, i + Len(needle) - 1) = needle

\* s.split("/").pop(): the text after the last "/"
RECURSIVE LastSegment(_)
LastSegment(s) ==
  IF \E i \in 1..Len(s) : SubSeq(s, i, i) = "/"
  THEN LET i == CHOOSE j \in 1..Len(s) : SubSeq(s, j, j) = "/" /\
                  \A m \in 1..(j - 1) : SubSeq(s, m, m) # "/"
       IN LastSegment(SubSeq(s, i + 1, Len(s)))
  ELSE s

LowerLetters == "abcdefghijklmnopqrstuvwxyz"
UpperLetters == "ABCDEFGHIJKLMNOPQRSTUVWXYZ"

UpperChar(c) ==
  IF \E i \in 1..26 : SubSeq(LowerLetters, i, i) = c
  THEN LET i == CHOOSE j \in 1..26 : SubSeq(LowerLetters, j, j) = c
       IN SubSeq(UpperLetters, i, i)
  ELSE c

\* s.toUpperCase()
RECURSIVE ToUpperCase(_)
ToUpperCase(s) ==
  IF Len(s) = 0 THEN ""
  ELSE UpperChar(SubSeq(s, 1, 1)) \o ToUpperCase(SubSeq(s, 2, Len(s)))

\* [...new Set(q)]: the first occurrence of every value, in order.  Objects
\* and arrays are compared by identity, so no two of them are merged.
RECURSIVE DedupValues(_)
DedupValues(q) ==
  IF Len(q) = 0 THEN <<>>
  ELSE LET init == DedupValues(SubSeq(q, 1, Len(q) - 1))
           last == q[Len(q)]
       IN IF ~IsObjLike(last) /\ last \in Range(init) THEN init
          ELSE Append(init, last)

-----------------------------------------------------------------------------
(* schema-cleaner.ts, constants *)

EMPTY_SCHEMA_PLACEHOLDER_NAME == "_placeholder"
EMPTY_SCHEMA_PLACEHOLDER_DESCRIPTION == "Placeholder. Always pass true."

UNSUPPORTED_CONSTRAINTS ==
  << "minLength", "maxLength", "minimum", "maximum", "exclusiveMinimum",
     "exclusiveMaximum", "multipleOf", "minItems", "maxItems", "uniqueItems",
     "minProperties", "maxProperties", "pattern", "format" >>

UNSUPPORTED_KEYWORDS ==
  UNSUPPORTED_CONSTRAINTS \o
  << "$schema", "$defs", "definitions", "$ref", "$id", "$comment", "const",
     "additionalProperties", "title", "default", "examples", "readOnly",
     "writeOnly", "contentEncoding", "contentMediaType", "if", "then", "else",
     "not", "dependentSchemas", "dependentRequired", "patternProperties",
     "propertyNames", "unevaluatedProperties", "unevaluatedItems",
     "minContains", "maxContains" >>

-----------------------------------------------------------------------------
(* Phase 1: hints *)

appendDescriptionHint(s, hint) ==
  LET currentDesc == IF IsString(Get(s, "description"))
                     THEN Get(s, "description").v ELSE ""
      formattedHint == "(" \o hint \o ")"
  IN IF Includes(currentDesc, formattedHint) THEN s
     ELSE JObj(("description" :>
                  JStr(IF currentDesc # ""
                       THEN currentDesc \o " " \o formattedHint
                       ELSE formattedHint)) @@ SpreadOf(s))

RECURSIVE convertRefsToHints(_)
convertRefsToHints(s) ==
  IF NotASchema(s) THEN s
  ELSE IF IsArray(s) THEN JArr([i \in DOMAIN s.v |-> convertRefsToHints(s.v[i])])
  ELSE
    LET r == IF IsString(Get(s, "$ref"))
             THEN LET seg == LastSegment(Get(s, "$ref").v)
                      refName == IF seg # "" THEN seg ELSE "ref"
                      d == Del(s, "$ref")
                      t == Set(d, "type", IF Truthy(Get(d, "type"))
                                          THEN Get(d, "type") ELSE JStr("object"))
                  IN appendDescriptionHint(t, "See: " \o refName)
             ELSE s
    IN JObj([key \in DOMAIN r.v |->
               IF IsObjLike(r.v[key]) THEN convertRefsToHints(r.v[key])
               ELSE r.v[key]])

\* constToEnum with the constant copied as it is, not as a string
constToEnum_Raw(s) ==
  LET e == Set(s, "enum", JArr(<<Get(s, "const")>>))
      t == Set(e, "type", IF Truthy(Get(e, "type"))
                          THEN Get(e, "type") ELSE JStr("string"))
  IN Del(t, "const")

\* the rewrite of one node that has a const
constToEnum(s) ==
  LET e == Set(s, "enum", JArr(<<JStr(ToJSString(Get(s, "const")))>>))
      t == Set(e, "type", IF Truthy(Get(e, "type"))
                          THEN Get(e, "type") ELSE JStr("string"))
  IN Del(t, "const")

RECURSIVE convertConstToEnum(_)
convertConstToEnum(s) ==
  IF NotASchema(s) THEN s
  ELSE IF IsArray(s) THEN JArr([i \in DOMAIN s.v |-> convertConstToEnum(s.v[i])])
  ELSE
    LET r == IF Get(s, "const") # JUndef THEN constToEnum(s) ELSE s
    IN JObj([key \in DOMAIN r.v |->
               IF IsObjLike(r.v[key]) THEN convertConstToEnum(r.v[key])
               ELSE r.v[key]])

RECURSIVE addEnumHints(_)
addEnumHints(s) ==
  IF NotASchema(s) THEN s
  ELSE IF IsArray(s) THEN JArr([i \in DOMAIN s.v |-> addEnumHints(s.v[i])])
  ELSE
    LET en == Get(s, "enum")
        r == IF IsArray(en) /\ Len(en.v) > 0
             THEN LET shown == IF Len(en.v) > 10 THEN SubSeq(en.v, 1, 10) ELSE en.v
                      values == ArrayJoin(shown, ", ")
                      suffix == IF Len(en.v) > 10 THEN ", ..." ELSE ""
                  IN appendDescriptionHint(s, "Allowed: " \o values \o suffix)
             ELSE s
    IN JObj([key \in DOMAIN r.v |->
               IF IsObjLike(r.v[key]) THEN addEnumHints(r.v[key])
               ELSE r.v[key]])

RECURSIVE addAdditionalPropertiesHints(_)
addAdditionalPropertiesHints(s) ==
  IF NotASchema(s) THEN s
  ELSE IF IsArray(s)
       THEN JArr([i \in DOMAIN s.v |-> addAdditionalPropertiesHints(s.v[i])])
  ELSE
    LET r == IF Get(s, "additionalProperties") = JBool(FALSE)
             THEN appendDescriptionHint(s, "no extra properties")
             ELSE s
    IN JObj([key \in DOMAIN r.v |->
               IF IsObjLike(r.v[key]) THEN addAdditionalPropertiesHints(r.v[key])
               ELSE r.v[key]])

\* the loop over UNSUPPORTED_CONSTRAINTS, from constraint number i on
RECURSIVE hintConstraintsFrom(_, _)
hintConstraintsFrom(r, i) ==
  IF i > Len(UNSUPPORTED_CONSTRAINTS) THEN r
  ELSE LET constraint == UNSUPPORTED_CONSTRAINTS[i]
       IN hintConstraintsFrom(
            IF Get(r, constraint) # JUndef
            THEN appendDescriptionHint(
                   r, constraint \o ": " \o ToJSString(Get(r, constraint)))
            ELSE r,
            i + 1)

RECURSIVE moveConstraintsToDescription(_)
moveConstraintsToDescription(s) ==
  IF NotASchema(s) THEN s
  ELSE IF IsArray(s)
       THEN JArr([i \in DOMAIN s.v |-> moveConstraintsToDescription(s.v[i])])
  ELSE
    LET r == hintConstraintsFrom(s, 1)
    IN JObj([key \in DOMAIN r.v |->
               IF IsObjLike(r.v[key]) THEN moveConstraintsToDescription(r.v[key])
               ELSE r.v[key]])

-----------------------------------------------------------------------------
(* Phase 2: flattening *)

IsTypeError(x) == x.k = "TypeError"

\* [...x] inside an array literal: an array's elements, a string's
\* characters; anything else is not iterable and the spread throws.
IterableOf(x) ==
  CASE x.k = "array" -> x.v
    [] x.k = "string" -> [i \in 1..Len(x.v) |-> JStr(SubSeq(x.v, i, i))]
    [] OTHER -> <<>>

\* an array or object of results, or the TypeError one of them raised
Raised(f) == \E key \in DOMAIN f : IsTypeError(f[key])
ArrayOrRaise(f) == IF Raised(f) THEN TypeError ELSE JArr(f)
ObjectOrRaise(f) == IF Raised(f) THEN TypeError ELSE JObj(f)

RECURSIVE mergeAllOf(_)
RECURSIVE mergeAllOfBranches(_, _, _, _)

\* merged.properties = { ...merged.properties, ...processed.properties }
mergeProperties(merged, processed) ==
  IF Truthy(Get(processed, "properties"))
  THEN Set(merged, "properties",
           JObj(SpreadOf(Get(processed, "properties")) @@
                SpreadOf(Get(merged, "properties"))))
  ELSE merged

\* if (!merged.type && processed.type) merged.type = processed.type
mergeType(merged, processed) ==
  IF ~Truthy(Get(merged, "type")) /\ Truthy(Get(processed, "type"))
  THEN Set(merged, "type", Get(processed, "type"))
  ELSE merged

\* if (processed.description && !merged.description) ...
mergeDescription(merged, processed) ==
  IF Truthy(Get(processed, "description")) /\ ~Truthy(Get(merged, "description"))
  THEN Set(merged, "description", Get(processed, "description"))
  ELSE merged

\* the body of the loop for branch i, `processed` being mergeAllOf(sub);
\* reading processed.properties of null or undefined throws
mergeBranch(subs, i, merged, allRequired, processed) ==
  IF IsTypeError(processed) \/ processed.k \in {"null", "undefined"}
  THEN [merged |-> merged, allRequired |-> allRequired, threw |-> TRUE]
  ELSE mergeAllOfBranches(
         subs, i + 1,
         mergeDescription(mergeType(mergeProperties(merged, processed), processed),
                          processed),
         IF IsArray(Get(processed, "required"))
         THEN allRequired \o Get(processed, "required").v
         ELSE allRequired)

\* the loop `for (const sub of result.allOf)` from branch i on
mergeAllOfBranches(subs, i, merged, allRequired) ==
  IF i > Len(subs)
  THEN [merged |-> merged, allRequired |-> allRequired, threw |-> FALSE]
  ELSE mergeBranch(subs, i, merged, allRequired, mergeAllOf(subs[i]))

\* result.required = [...new Set([...(result.required || []), ...allRequired])]
mergeRequired(res, allRequired) ==
  LET own == Get(res, "required")
  IN IF Len(allRequired) = 0 THEN res
     ELSE IF Truthy(own) /\ own.k \notin {"array", "string"} THEN TypeError
     ELSE Set(res, "required",
              JArr(DedupValues((IF Truthy(own) THEN IterableOf(own) ELSE <<>>)
                               \o allRequired)))

\* result = { ...rest, ...merged }, then the required lists
mergedNode(s, acc) ==
  IF acc.threw THEN TypeError
  ELSE mergeRequired(JObj(acc.merged.v @@ Del(s, "allOf").v), acc.allRequired)

\* the node's own allOf
mergeAllOfNode(s) ==
  IF IsArray(Get(s, "allOf")) /\ Len(Get(s, "allOf").v) > 0
  THEN mergedNode(s, mergeAllOfBranches(Get(s, "allOf").v, 1, JObj(EmptyMap), <<>>))
  ELSE s

\* the recursion into every object value of the node
mergeAllOfValues(r) ==
  IF IsTypeError(r) THEN TypeError
  ELSE ObjectOrRaise([key \in DOMAIN r.v |->
                        IF IsObjLike(r.v[key]) THEN mergeAllOf(r.v[key])
                        ELSE r.v[key]])

mergeAllOf(s) ==
  IF NotASchema(s) THEN s
  ELSE IF IsArray(s) THEN ArrayOrRaise([i \in DOMAIN s.v |-> mergeAllOf(s.v[i])])
  ELSE mergeAllOfValues(mergeAllOfNode(s))

scoreSchemaOption(s) ==
  IF NotASchema(s) THEN [score |-> 0, typeName |-> JStr("unknown")]
  ELSE
    LET type == Get(s, "type")
    IN IF type = JStr("object") \/ Truthy(Get(s, "properties"))
       THEN [score |-> 3, typeName |-> JStr("object")]
       ELSE IF type = JStr("array") \/ Truthy(Get(s, "items"))
       THEN [score |-> 2, typeName |-> JStr("array")]
       ELSE IF Truthy(type) /\ type # JStr("null")
       THEN [score |-> 1, typeName |-> type]
       ELSE [score |-> 0, typeName |-> IF Truthy(type) THEN type ELSE JStr("null")]

\* tryMergeEnumFromUnion from option i on; JNull stands for `return null`
RECURSIVE mergeEnumFrom(_, _, _)
mergeEnumFrom(options, i, enumValues) ==
  IF i > Len(options)
  THEN IF Len(enumValues) > 0 THEN JArr(enumValues) ELSE JNull
  ELSE
    LET option == options[i]
    IN IF NotASchema(option) THEN JNull
       ELSE IF Get(option, "const") # JUndef
       THEN mergeEnumFrom(options, i + 1,
                          Append(enumValues, JStr(ToJSString(Get(option, "const")))))
       ELSE IF IsArray(Get(option, "enum")) /\ Len(Get(option, "enum").v) >= 1
       THEN mergeEnumFrom(options, i + 1,
                          enumValues \o
                          [j \in DOMAIN Get(option, "enum").v |->
                             JStr(ToJSString(Get(option, "enum").v[j]))])
       ELSE IF \E key \in {"properties", "items", "anyOf", "oneOf", "allOf"} :
                 Truthy(Get(option, key))
       THEN JNull
       ELSE IF Truthy(Get(option, "type")) /\ ~Truthy(Get(option, "const")) /\
               ~Truthy(Get(option, "enum"))
       THEN JNull
       ELSE mergeEnumFrom(options, i + 1, enumValues)

\* tryMergeEnumFromUnion reading only `const` branches (by now phase 1b has
\* rewritten every const as an enum)
tryMergeEnumFromUnion_ConstOnly(options) ==
  IF ~IsArray(options) \/ Len(options.v) = 0 THEN JNull
  ELSE IF \A i \in DOMAIN options.v :
            ~NotASchema(options.v[i]) /\ Get(options.v[i], "const") # JUndef
  THEN JArr([i \in DOMAIN options.v |->
               JStr(ToJSString(Get(options.v[i], "const")))])
  ELSE JNull

tryMergeEnumFromUnion(options) ==
  IF ~IsArray(options) \/ Len(options.v) = 0 THEN JNull
  ELSE mergeEnumFrom(options.v, 1, <<>>)

\* the index the selection loop ends with: the first option of highest score
BestIdx(options) ==
  CHOOSE i \in DOMAIN options :
    /\ \A j \in DOMAIN options :
         scoreSchemaOption(options[j]).score <= scoreSchemaOption(options[i]).score
    /\ \A j \in 1..(i - 1) :
         scoreSchemaOption(options[j]).score < scoreSchemaOption(options[i]).score

\* the typeName of every option that has a truthy one, in option order
RECURSIVE AllTypes(_)
AllTypes(options) ==
  IF Len(options) = 0 THEN <<>>
  ELSE LET init == AllTypes(SubSeq(options, 1, Len(options) - 1))
           tn == scoreSchemaOption(options[Len(options)]).typeName
       IN IF Truthy(tn) THEN Append(init, tn) ELSE init

RECURSIVE flattenAnyOfOneOf(_)

\* typeof x.description === "string" ? x.description : ""
descriptionOf(x) ==
  IF IsString(Get(x, "description")) THEN Get(x, "description").v ELSE ""

\* the parent's description put on the selected option
withParentDescription(selected, parentDesc, childDesc) ==
  IF parentDesc = "" THEN selected
  ELSE IF childDesc # "" /\ childDesc # parentDesc
  THEN JObj(("description" :> JStr(parentDesc \o " (" \o childDesc \o ")"))
            @@ SpreadOf(selected))
  ELSE IF childDesc = ""
  THEN JObj(("description" :> JStr(parentDesc)) @@ SpreadOf(selected))
  ELSE selected

\* the "Accepts: ..." hint when the options have more than one type name
withAcceptsHint(selected, allTypes) ==
  IF Len(allTypes) > 1
  THEN appendDescriptionHint(
         selected, "Accepts: " \o ArrayJoin(DedupValues(allTypes), " | "))
  ELSE selected

\* flattenAnyOfOneOf(options[bestIdx]) || { type: "string" }
selectedOr(flat) ==
  IF Truthy(flat) THEN flat ELSE JObj([type |-> JStr("string")])

describeSelected(selected, parentDesc) ==
  withParentDescription(selected, parentDesc, descriptionOf(selected))

\* the best option, flattened, with the descriptions and the hint
selectOption(options, parentDesc) ==
  withAcceptsHint(
    describeSelected(selectedOr(flattenAnyOfOneOf(options[BestIdx(options)])),
                     parentDesc),
    AllTypes(options))

\* what a non-empty union becomes: the merged enum, or the selected option
flattenOptions(res, unionKey, mergedEnum, parentDesc) ==
  IF mergedEnum.k # "null"
  THEN LET r1 == Set(Set(Del(res, unionKey), "type", JStr("string")),
                     "enum", mergedEnum)
       IN IF parentDesc # "" THEN Set(r1, "description", JStr(parentDesc)) ELSE r1
  ELSE JObj(SpreadOf(selectOption(Get(res, unionKey).v, parentDesc))
            @@ Del(Del(res, unionKey), "description").v)

\* one turn of `for (const unionKey of ["anyOf", "oneOf"])`
flattenUnion(res, unionKey) ==
  IF ~(IsArray(Get(res, unionKey)) /\ Len(Get(res, unionKey).v) > 0) THEN res
  ELSE flattenOptions(res, unionKey, tryMergeEnumFromUnion(Get(res, unionKey)),
                      descriptionOf(res))

\* the recursion into every object value of the node
flattenValues(r) ==
  JObj([key \in DOMAIN r.v |->
          IF IsObjLike(r.v[key]) THEN flattenAnyOfOneOf(r.v[key]) ELSE r.v[key]])

flattenAnyOfOneOf(s) ==
  IF NotASchema(s) THEN s
  ELSE IF IsArray(s) THEN JArr([i \in DOMAIN s.v |-> flattenAnyOfOneOf(s.v[i])])
  ELSE flattenValues(flattenUnion(flattenUnion(s, "anyOf"), "oneOf"))

\* types.filter((t) => t !== "null" && t)
RECURSIVE NonNullTypes(_)
NonNullTypes(types) ==
  IF Len(types) = 0 THEN <<>>
  ELSE LET init == NonNullTypes(SubSeq(types, 1, Len(types) - 1))
           t == types[Len(types)]
       IN IF t # JStr("null") /\ Truthy(t) THEN Append(init, t) ELSE init

RECURSIVE flattenTypeArrays(_)
flattenTypeArrays(s) ==
  IF NotASchema(s) THEN s
  ELSE IF IsArray(s) THEN JArr([i \in DOMAIN s.v |-> flattenTypeArrays(s.v[i])])
  ELSE
    LET r == IF IsArray(Get(s, "type"))
             THEN LET types == Get(s, "type").v
                      hasNull == \E i \in DOMAIN types : types[i] = JStr("null")
                      nonNullTypes == NonNullTypes(types)
                      r0 == Set(s, "type", IF Len(nonNullTypes) > 0
                                           THEN nonNullTypes[1] ELSE JStr("string"))
                      r1 == IF Len(nonNullTypes) > 1
                            THEN appendDescriptionHint(
                                   r0, "Accepts: " \o ArrayJoin(nonNullTypes, " | "))
                            ELSE r0
                  IN IF hasNull THEN appendDescriptionHint(r1, "nullable") ELSE r1
             ELSE s
    IN JObj([key \in DOMAIN r.v |->
               IF IsObjLike(r.v[key]) THEN flattenTypeArrays(r.v[key])
               ELSE r.v[key]])

-----------------------------------------------------------------------------
(* Phase 3: cleanup *)

RECURSIVE removeUnsupportedKeywords(_, _)
removeUnsupportedKeywords(s, insideProperties) ==
  IF NotASchema(s) THEN s
  ELSE IF IsArray(s)
       THEN JArr([i \in DOMAIN s.v |-> removeUnsupportedKeywords(s.v[i], FALSE)])
  ELSE
    LET kept == {key \in DOMAIN s.v :
                   insideProperties \/ key \notin Range(UNSUPPORTED_KEYWORDS)}
    IN JObj([key \in kept |->
               LET value == s.v[key]
               IN IF IsObjLike(value)
                  THEN IF key = "properties"
                       THEN JObj([propName \in Keys(value) |->
                                    removeUnsupportedKeywords(
                                      SpreadOf(value)[propName], FALSE)])
                       ELSE removeUnsupportedKeywords(value, FALSE)
                  ELSE value])

\* result.required.filter(req => hasOwnProperty.call(result.properties, req))
RECURSIVE ValidRequired(_, _)
ValidRequired(required, properties) ==
  IF Len(required) = 0 THEN <<>>
  ELSE LET init == ValidRequired(SubSeq(required, 1, Len(required) - 1), properties)
           req == required[Len(required)]
       IN IF HasOwn(properties, ToJSString(req)) THEN Append(init, req) ELSE init

RECURSIVE cleanupRequiredFields(_)
cleanupRequiredFields(s) ==
  IF NotASchema(s) THEN s
  ELSE IF IsArray(s) THEN JArr([i \in DOMAIN s.v |-> cleanupRequiredFields(s.v[i])])
  ELSE
    LET required == Get(s, "required")
        properties == Get(s, "properties")
        r == IF IsArray(required) /\ Truthy(properties) /\ TypeofObject(properties)
             THEN LET validRequired == ValidRequired(required.v, properties)
                  IN IF Len(validRequired) = 0 THEN Del(s, "required")
                     ELSE IF Len(validRequired) # Len(required.v)
                     THEN Set(s, "required", JArr(validRequired))
                     ELSE s
             ELSE s
    IN JObj([key \in DOMAIN r.v |->
               IF IsObjLike(r.v[key]) THEN cleanupRequiredFields(r.v[key])
               ELSE r.v[key]])

-----------------------------------------------------------------------------
(* Phase 4: empty-object placeholder *)

PlaceholderProperties ==
  JObj((EMPTY_SCHEMA_PLACEHOLDER_NAME :>
          JObj([type |-> JStr("BOOLEAN"),
                description |-> JStr(EMPTY_SCHEMA_PLACEHOLDER_DESCRIPTION)])))

\* needsPlaceholder that knows the lowercase type name only
needsPlaceholder_LowercaseOnly(s) ==
  LET properties == Get(s, "properties")
      hasProperties == /\ Truthy(properties)
                       /\ TypeofObject(properties)
                       /\ Cardinality(Keys(properties)) > 0
  IN Get(s, "type") = JStr("object") /\ ~hasProperties

\* isObjectType && !hasProperties
needsPlaceholder(s) ==
  LET isObjectType == Get(s, "type") = JStr("object") \/ Get(s, "type") = JStr("OBJECT")
      properties == Get(s, "properties")
      hasProperties == /\ Truthy(properties)
                       /\ TypeofObject(properties)
                       /\ Cardinality(Keys(properties)) > 0
  IN isObjectType /\ ~hasProperties

RECURSIVE addEmptySchemaPlaceholder(_)
addEmptySchemaPlaceholder(s) ==
  IF NotASchema(s) THEN s
  ELSE IF IsArray(s)
       THEN JArr([i \in DOMAIN s.v |-> addEmptySchemaPlaceholder(s.v[i])])
  ELSE
    LET r == IF needsPlaceholder(s)
             THEN Set(Set(s, "properties", PlaceholderProperties),
                      "required", JArr(<<JStr(EMPTY_SCHEMA_PLACEHOLDER_NAME)>>))
             ELSE s
    IN JObj([key \in DOMAIN r.v |->
               IF IsObjLike(r.v[key]) THEN addEmptySchemaPlaceholder(r.v[key])
               ELSE r.v[key]])

-----------------------------------------------------------------------------
(* Phase 5: Gemini format *)

\* value.filter(prop => typeof prop === "string" && propertyNames.has(prop))
RECURSIVE NamedRequired(_, _)
NamedRequired(value, propertyNames) ==
  IF Len(value) = 0 THEN <<>>
  ELSE LET init == NamedRequired(SubSeq(value, 1, Len(value) - 1), propertyNames)
           prop == value[Len(value)]
       IN IF IsString(prop) /\ prop.v \in propertyNames THEN Append(init, prop)
          ELSE init

\* ensureArrayItems testing the type name as it was before uppercasing
ensureArrayItems_Lowercase(res) ==
  IF Get(res, "type") = JStr("array") /\ ~Truthy(Get(res, "items"))
  THEN Set(res, "items", JObj([type |-> JStr("STRING")]))
  ELSE res

\* "Ensure array schemas have items field"
ensureArrayItems(res) ==
  IF Get(res, "type") = JStr("ARRAY") /\ ~Truthy(Get(res, "items"))
  THEN Set(res, "items", JObj([type |-> JStr("STRING")]))
  ELSE res

RECURSIVE toGeminiFormat(_)
toGeminiFormat(s) ==
  IF NotASchema(s) THEN s
  ELSE IF IsArray(s) THEN JArr([i \in DOMAIN s.v |-> toGeminiFormat(s.v[i])])
  ELSE
    LET propertyNames ==
          IF Truthy(Get(s, "properties")) /\ TypeofObject(Get(s, "properties"))
          THEN Keys(Get(s, "properties")) ELSE {}
        \* a required list that the filter leaves empty is not copied
        dropped ==
          {key \in DOMAIN s.v :
             /\ key = "required" /\ IsArray(s.v[key])
             /\ propertyNames # {}
             /\ Len(NamedRequired(s.v[key].v, propertyNames)) = 0}
        res ==
          JObj([key \in (DOMAIN s.v) \ dropped |->
                  LET value == s.v[key]
                  IN IF key = "type" /\ IsString(value)
                     THEN JStr(ToUpperCase(value.v))
                     ELSE IF key = "properties" /\ IsObjLike(value)
                     THEN JObj([propName \in Keys(value) |->
                                  toGeminiFormat(SpreadOf(value)[propName])])
                     ELSE IF key = "items" /\ TypeofObject(value)
                     THEN toGeminiFormat(value)
                     ELSE IF key \in {"anyOf", "oneOf", "allOf"} /\ IsArray(value)
                     THEN JArr([i \in DOMAIN value.v |-> toGeminiFormat(value.v[i])])
                     ELSE IF key = "required" /\ IsArray(value)
                     THEN IF propertyNames # {}
                          THEN JArr(NamedRequired(value.v, propertyNames))
                          ELSE value
                     ELSE value])
    IN ensureArrayItems(res)

-----------------------------------------------------------------------------
(* Main entry point *)

cleanSchema(s) ==
  IF NotASchema(s) THEN JObj([type |-> JStr("STRING")])
  ELSE
    LET p1 == moveConstraintsToDescription(
                addAdditionalPropertiesHints(
                  addEnumHints(convertConstToEnum(convertRefsToHints(s)))))
        p2a == mergeAllOf(p1)
    IN IF IsTypeError(p2a) THEN TypeError
       ELSE toGeminiFormat(
              addEmptySchemaPlaceholder(
                cleanupRequiredFields(
                  removeUnsupportedKeywords(
                    flattenTypeArrays(flattenAnyOfOneOf(p2a)), FALSE))))

-----------------------------------------------------------------------------
(* The schemas cleanSchema is run on *)

\* nesting levels of the generated schema trees
SchemaDepth == 2
\* branches of a generated union of constants
MaxUnion == 2

ConstValues == {JStr("a"), JStr("b"), JNum(1), JBool(TRUE), JNull}

\* { const: v }
ConstSchema(v) == JObj([const |-> v])

\* arguments that are not objects
NonObjects == {JNull, JStr("text"), JNum(7), JNum(0), JBool(TRUE)}

LeafSchemas ==
  { JObj(EmptyMap),
    JObj([type |-> JStr("string")]),
    JObj([type |-> JStr("object")]),
    JObj([type |-> JStr("OBJECT")]),
    JObj([type |-> JStr("array")]),
    JObj([type |-> JStr("null")]),
    JObj([type |-> JStr("integer"), description |-> JStr("n"), minimum |-> JNum(1)]),
    JObj([type |-> JStr("string"), title |-> JStr("T"), format |-> JStr("date")]),
    JObj([type |-> JArr(<<JStr("string"), JStr("null")>>)]),
    JObj([type |-> JArr(<<JStr("array"), JStr("object")>>)]),
    JObj([type |-> JStr("string"), enum |-> JArr(<<JStr("a"), JStr("b")>>)]),
    JObj([type |-> JStr("string"), required |-> JArr(<<JStr("a")>>)]),
    JObj([required |-> JArr(<<>>)]),
    JObj([properties |-> JObj(EmptyMap), required |-> JArr(<<JStr("a")>>)]),
    JObj([type |-> JStr("object"), properties |-> JObj(EmptyMap),
          additionalProperties |-> JBool(FALSE)]),
    JObj(("$ref" :> JStr("#/$defs/Foo"))),
    ConstSchema(JStr("x")),
    JObj([description |-> JStr("d"),
          anyOf |-> JArr(<<ConstSchema(JStr("a")), ConstSchema(JStr("b"))>>)]),
    JNull,
    JStr("text") }

\* The ways a schema c is nested in a larger one.  A property or items
\* position holds a schema object; the branch lists also hold null and
\* non-object entries.
Wrap(c) ==
  (IF c.k = "object"
   THEN { JObj([type |-> JStr("object"), properties |-> JObj([a |-> c]),
                required |-> JArr(<<JStr("a"), JStr("b")>>)]),
          JObj([properties |->
                  JObj([const |-> c, b |-> JObj([type |-> JStr("string")])]),
                required |-> JArr(<<JStr("const")>>)]),
          JObj([type |-> JStr("array"), items |-> c]) }
   ELSE {})
  \cup
  { JObj([anyOf |-> JArr(<<c, JObj([type |-> JStr("null")])>>)]),
    JObj([description |-> JStr("p"),
          oneOf |-> JArr(<<JObj([type |-> JStr("string")]), c>>)]),
    JObj([allOf |-> JArr(<<JObj([properties |->
                                    JObj([b |-> JObj([type |-> JStr("array")])]),
                                 required |-> JArr(<<JStr("b")>>)]),
                            c>>)]) }

RECURSIVE SchemasOfDepth(_)
SchemasOfDepth(n) ==
  IF n = 0 THEN LeafSchemas
  ELSE LeafSchemas \cup UNION {Wrap(c) : c \in SchemasOfDepth(n - 1)}

\* { anyOf: [{const: v1}, ..., {const: vn}] }
ConstUnions ==
  UNION { { JObj([anyOf |-> JArr([i \in 1..n |-> ConstSchema(vs[i])])]) :
            vs \in [1..n -> ConstValues] } : n \in 1..MaxUnion }

Schemas ==
  SchemasOfDepth(SchemaDepth) \cup ConstUnions \cup NonObjects
    \cup {ConstSchema(v) : v \in ConstValues}

-----------------------------------------------------------------------------
(* The schema run: cleanSchema on an argument, then on its own output *)

RequestIdle == rpc = "idle" /\ request = JUndef /\ areq = JUndef

StreamIdle ==
  /\ spc = "idle"
  /\ state = JUndef
  /\ events = <<>>
  /\ chunks = JUndef
  /\ emitted = <<>>

ResponseIdle == upstream = JUndef /\ response = JUndef /\ delivered = 0

HandlerIdle == body = JUndef /\ unread = "" /\ buffer = "" /\ written = <<>>

QuotaIdle == quotaCache = JNull /\ wall = 0 /\ chat = JUndef

Init ==
  /\ pc = "start"
  /\ schema \in Schemas
  /\ result = JUndef
  /\ result2 = JUndef
  /\ RequestIdle
  /\ StreamIdle
  /\ ResponseIdle
  /\ HandlerIdle
  /\ QuotaIdle

\* result = cleanSchema(schema)
Clean ==
  /\ pc = "start"
  /\ result' = cleanSchema(schema)
  /\ pc' = "cleaned"
  /\ UNCHANGED <<schema, result2>>
  /\ UNCHANGED <<requestVars, streamVars, responseVars, handlerVars, quotaVars>>

\* result2 = cleanSchema(result), when the first call returned
Reclean ==
  /\ pc = "cleaned"
  /\ ~IsTypeError(result)
  /\ result2' = cleanSchema(result)
  /\ pc' = "recleaned"
  /\ UNCHANGED <<schema, result>>
  /\ UNCHANGED <<requestVars, streamVars, responseVars, handlerVars, quotaVars>>

Next == Clean \/ Reclean

Spec == Init /\ [][Next]_vars

-----------------------------------------------------------------------------
(* JSON.parse, on the JSON texts the requests below carry: null, true,     *)
(* false, unsigned integers, strings without escapes, arrays and objects,  *)
(* with blanks between tokens.  A parse yields [ok, val, rest]; ok = FALSE  *)
(* is the SyntaxError JSON.parse throws.                                    *)

Digits == "0123456789"
IsDigit(c) == \E i \in 1..10 : SubSeq(Digits, i, i) = c
DigitValue(c) == (CHOOSE i \in 1..10 : SubSeq(Digits, i, i) = c) - 1

ParseFail == [ok |-> FALSE, val |-> JUndef, rest |-> ""]
Parsed(val, rest) == [ok |-> TRUE, val |-> val, rest |-> rest]

StartsWith(s, prefix) ==
  Len(s) >= Len(prefix) /\ SubSeq(s, 1, Len(prefix)) = prefix
Drop(s, n) == SubSeq(s, n + 1, Len(s))

RECURSIVE SkipBlanks(_)
SkipBlanks(s) == IF StartsWith(s, " ") THEN SkipBlanks(Drop(s, 1)) ELSE s

\* the digits s opens with, read as a number from the value n so far
RECURSIVE ParseDigits(_, _)
ParseDigits(s, n) ==
  IF Len(s) > 0 /\ IsDigit(SubSeq(s, 1, 1))
  THEN ParseDigits(Drop(s, 1), 10 * n + DigitValue(SubSeq(s, 1, 1)))
  ELSE Parsed(JNum(n), s)

\* the text up to the closing quote; s starts after the opening quote
RECURSIVE ParseChars(_, _)
ParseChars(s, text) ==
  IF Len(s) = 0 THEN ParseFail
  ELSE IF SubSeq(s, 1, 1) = "\"" THEN Parsed(JStr(text), Drop(s, 1))
  ELSE ParseChars(Drop(s, 1), text \o SubSeq(s, 1, 1))

RECURSIVE ParseValue(_)
RECURSIVE ParseElements(_, _)
RECURSIVE ParseMembers(_, _)

\* after an element: "," and more elements, or "]"
ElementsAfter(r, elems) ==
  IF StartsWith(r, ",") THEN ParseElements(Drop(r, 1), elems)
  ELSE IF StartsWith(r, "]") THEN Parsed(JArr(elems), Drop(r, 1))
  ELSE ParseFail

\* e is the parse of the element
ElementParsed(e, elems) ==
  IF ~e.ok THEN ParseFail
  ELSE ElementsAfter(SkipBlanks(e.rest), Append(elems, e.val))

\* the elements of an array after "[" or ","
ParseElements(s, elems) == ElementParsed(ParseValue(s), elems)

\* after a member: "," and more members, or "}"
MembersAfter(r, members) ==
  IF StartsWith(r, ",") THEN ParseMembers(Drop(r, 1), members)
  ELSE IF StartsWith(r, "}") THEN Parsed(JObj(members), Drop(r, 1))
  ELSE ParseFail

\* val is the parse of the member's value; a later member of the same name
\* replaces an earlier one
MemberValued(name, val, members) ==
  IF ~val.ok THEN ParseFail
  ELSE MembersAfter(SkipBlanks(val.rest), (name :> val.val) @@ members)

\* s2 is the text after the member's name
MemberNamed(name, s2, members) ==
  IF StartsWith(s2, ":") THEN MemberValued(name, ParseValue(Drop(s2, 1)), members)
  ELSE ParseFail

\* key is the parse of the member's name
MemberKeyed(key, members) ==
  IF ~key.ok THEN ParseFail
  ELSE MemberNamed(key.val.v, SkipBlanks(key.rest), members)

ParseMember(s1, members) ==
  IF StartsWith(s1, "\"") THEN MemberKeyed(ParseChars(Drop(s1, 1), ""), members)
  ELSE ParseFail

\* the members of an object after "{" or ","
ParseMembers(s, members) == ParseMember(SkipBlanks(s), members)

\* s1 is the text after "[": no element, or elements
ParseArray(s1) ==
  IF StartsWith(s1, "]") THEN Parsed(JArr(<<>>), Drop(s1, 1))
  ELSE ParseElements(s1, <<>>)

\* s1 is the text after "{": no member, or members
ParseObject(s1) ==
  IF StartsWith(s1, "}") THEN Parsed(JObj(EmptyMap), Drop(s1, 1))
  ELSE ParseMembers(s1, EmptyMap)

\* the value that the text s, which opens with no blank, starts with
ParseToken(s) ==
  IF StartsWith(s, "null") THEN Parsed(JNull, Drop(s, 4))
  ELSE IF StartsWith(s, "true") THEN Parsed(JBool(TRUE), Drop(s, 4))
  ELSE IF StartsWith(s, "false") THEN Parsed(JBool(FALSE), Drop(s, 5))
  ELSE IF StartsWith(s, "\"") THEN ParseChars(Drop(s, 1), "")
  ELSE IF Len(s) > 1 /\ StartsWith(s, "0") /\ IsDigit(SubSeq(s, 2, 2)) THEN ParseFail
  ELSE IF Len(s) > 0 /\ IsDigit(SubSeq(s, 1, 1)) THEN ParseDigits(s, 0)
  ELSE IF StartsWith(s, "[") THEN ParseArray(SkipBlanks(Drop(s, 1)))
  ELSE IF StartsWith(s, "{") THEN ParseObject(SkipBlanks(Drop(s, 1)))
  ELSE ParseFail

ParseValue(s0) == ParseToken(SkipBlanks(s0))

\* text after the value is a SyntaxError
WholeText(p) == IF p.ok /\ SkipBlanks(p.rest) = "" THEN p ELSE ParseFail

\* JSON.parse(x): the argument is turned into a string first
JSONParse(x) == WholeText(ParseValue(ToJSString(x)))

-----------------------------------------------------------------------------
(* The request transformer *)

LowerChar(c) ==
  IF \E i \in 1..26 : SubSeq(UpperLetters, i, i) = c
  THEN LET i == CHOOSE j \in 1..26 : SubSeq(UpperLetters, j, j) = c
       IN SubSeq(LowerLetters, i, i)
  ELSE c

\* s.toLowerCase()
RECURSIVE ToLowerCase(_)
ToLowerCase(s) ==
  IF Len(s) = 0 THEN ""
  ELSE LowerChar(SubSeq(s, 1, 1)) \o ToLowerCase(SubSeq(s, 2, Len(s)))

\* content.map((p) => p.text || "").join("\n")
extractText(content) ==
  IF ~Truthy(content) THEN ""
  ELSE IF IsString(content) THEN content.v
  ELSE IF IsArray(content)
  THEN ArrayJoin([i \in DOMAIN content.v |->
                    IF Truthy(Get(content.v[i], "text"))
                    THEN Get(content.v[i], "text") ELSE JStr("")], "\n")
  ELSE ""

\* if (part.type === "text" && part.text) parts.push({ text: part.text })
textPart(part) ==
  IF Get(part, "type") = JStr("text") /\ Truthy(Get(part, "text"))
  THEN <<JObj([text |-> Get(part, "text")])>>
  ELSE <<>>

\* the text parts of an array content, in order
RECURSIVE textParts(_)
textParts(content) ==
  IF Len(content) = 0 THEN <<>>
  ELSE textParts(SubSeq(content, 1, Len(content) - 1))
       \o textPart(content[Len(content)])

\* "Handle Text/Image Content"
contentParts(content) ==
  IF ~Truthy(content) THEN <<>>
  ELSE IF IsString(content) THEN <<JObj([text |-> content])>>
  ELSE IF IsArray(content) THEN textParts(content.v)
  ELSE <<>>

\* JSON.parse(call.function.arguments), {} when it throws
argsOf(parsed) == IF parsed.ok THEN parsed.val ELSE JObj(EmptyMap)

functionCallPart(call) ==
  IF Get(call, "type") = JStr("function")
  THEN <<JObj([functionCall |->
                 JObj([name |-> Get(Get(call, "function"), "name"),
                       args |-> argsOf(JSONParse(
                                  Get(Get(call, "function"), "arguments")))])])>>
  ELSE <<>>

\* the functionCall parts of the tool calls, in order
RECURSIVE functionCallParts(_)
functionCallParts(calls) ==
  IF Len(calls) = 0 THEN <<>>
  ELSE functionCallParts(SubSeq(calls, 1, Len(calls) - 1))
       \o functionCallPart(calls[Len(calls)])

\* "Handle Tool Calls (Assistant requesting execution)"
toolCallParts(msg) ==
  IF Get(msg, "role") = JStr("assistant") /\ Truthy(Get(msg, "tool_calls"))
  THEN functionCallParts(Get(msg, "tool_calls").v)
  ELSE <<>>

\* responseOf that falls back to the empty object
responseOf_Empty(parsed, content) ==
  IF parsed.ok THEN parsed.val ELSE JObj(EmptyMap)

\* JSON.parse(msg.content), { content: msg.content } when it throws
responseOf(parsed, content) ==
  IF parsed.ok THEN parsed.val ELSE JObj([content |-> content])

responseObj(content) ==
  IF IsString(content) THEN responseOf(JSONParse(content), content)
  ELSE JObj([content |-> content])

\* functionResponsePart that gives the response as a text part
functionResponsePart_Text(msg) ==
  JObj([text |-> JStr(ToJSString(Get(msg, "content")))])

\* the functionResponse part of a tool message
functionResponsePart(msg) ==
  JObj([functionResponse |->
          JObj([name |-> IF Truthy(Get(msg, "name")) THEN Get(msg, "name")
                         ELSE JStr("unknown_tool"),
                response |-> responseObj(Get(msg, "content"))])])

\* "Map Roles"
roleOf(msg) ==
  IF Get(msg, "role") = JStr("system") THEN "system"
  ELSE IF Get(msg, "role") = JStr("assistant") THEN "model"
  ELSE "user"

\* the content node of msg, parts being its text and functionCall parts;
\* JNull stands for `return null`
contentOf(msg, parts) ==
  IF Get(msg, "role") = JStr("tool") /\ Truthy(Get(msg, "tool_call_id"))
  THEN JObj([role |-> JStr("user"),
             parts |-> JArr(Append(parts, functionResponsePart(msg)))])
  ELSE IF Len(parts) = 0 THEN JNull
  ELSE JObj([role |-> JStr(roleOf(msg)), parts |-> JArr(parts)])

transformMessage(msg) ==
  contentOf(msg, contentParts(Get(msg, "content")) \o toolCallParts(msg))

\* appendContent that always starts a new node
appendContent_NoMerge(contents, content) == Append(contents, content)

\* appendContent that puts the merged parts in front of the node's own
appendContent_Prepend(contents, content) ==
  LET last == IF Len(contents) > 0 THEN contents[Len(contents)] ELSE JUndef
  IN IF Truthy(last) /\ Get(last, "role") = Get(content, "role")
     THEN [contents EXCEPT ![Len(contents)] =
             Set(last, "parts", JArr(Get(content, "parts").v \o Get(last, "parts").v))]
     ELSE Append(contents, content)

\* "If the last message has the same role, merge parts"
appendContent(contents, content) ==
  LET last == IF Len(contents) > 0 THEN contents[Len(contents)] ELSE JUndef
  IN IF Truthy(last) /\ Get(last, "role") = Get(content, "role")
     THEN [contents EXCEPT ![Len(contents)] =
             Set(last, "parts", JArr(Get(last, "parts").v \o Get(content, "parts").v))]
     ELSE Append(contents, content)

\* if (content) { merge or push }
pushContent(contents, content) ==
  IF Truthy(content) THEN appendContent(contents, content) ELSE contents

\* the body of the loop for one message
pushMessage(contents, msg) ==
  IF Get(msg, "role") = JStr("system") THEN contents
  ELSE pushContent(contents, transformMessage(msg))

\* the loop over request.messages from message i on
RECURSIVE transformMessagesFrom(_, _, _)
transformMessagesFrom(messages, i, contents) ==
  IF i > Len(messages) THEN contents
  ELSE transformMessagesFrom(messages, i + 1, pushMessage(contents, messages[i]))

\* tools.map(...): null for a tool that is not a function
functionDeclaration(tool) ==
  IF Get(tool, "type") # JStr("function") THEN <<>>
  ELSE <<JObj([name |-> Get(Get(tool, "function"), "name"),
               description |-> Get(Get(tool, "function"), "description"),
               parameters |-> cleanSchema(Get(Get(tool, "function"), "parameters"))])>>

\* the function declarations of the function-typed tools, in order
RECURSIVE functionDeclarations(_)
functionDeclarations(tools) ==
  IF Len(tools) = 0 THEN <<>>
  ELSE functionDeclarations(SubSeq(tools, 1, Len(tools) - 1))
       \o functionDeclaration(tools[Len(tools)])

\* TypeError when cleanSchema raised on a tool's parameters
toolsOf(declarations) ==
  IF \E i \in DOMAIN declarations : IsTypeError(Get(declarations[i], "parameters"))
  THEN TypeError
  ELSE IF Len(declarations) = 0 THEN JArr(<<>>)
  ELSE JArr(<<JObj([functionDeclarations |-> JArr(declarations)])>>)

transformTools(tools) == toolsOf(functionDeclarations(tools))

\* result.toolConfig for a truthy request.tool_choice
toolConfig(tool_choice) ==
  IF tool_choice = JStr("auto")
  THEN JObj([functionCallingConfig |-> JObj([mode |-> JStr("AUTO")])])
  ELSE IF tool_choice = JStr("none")
  THEN JObj([functionCallingConfig |-> JObj([mode |-> JStr("NONE")])])
  ELSE IF tool_choice = JStr("required")
  THEN JObj([functionCallingConfig |-> JObj([mode |-> JStr("ANY")])])
  ELSE IF tool_choice.k = "object" /\ Get(tool_choice, "type") = JStr("function")
  THEN JObj([functionCallingConfig |->
               JObj([mode |-> JStr("ANY"),
                     allowedFunctionNames |->
                       JArr(<<Get(Get(tool_choice, "function"), "name")>>)])])
  ELSE JObj(EmptyMap)

\* Array.isArray(request.stop) ? request.stop : request.stop ? [request.stop]
\* : undefined
stopSequences(stop) ==
  IF IsArray(stop) THEN stop ELSE IF Truthy(stop) THEN JArr(<<stop>>) ELSE JUndef

\* "Build generation config"
baseConfig(req) ==
  JObj([temperature |-> Get(req, "temperature"),
        maxOutputTokens |-> Get(req, "max_tokens"),
        topP |-> Get(req, "top_p"),
        stopSequences |-> stopSequences(Get(req, "stop")),
        candidateCount |-> JNum(1)])

isThinkingModel_KeywordOnly(lowerModel) == Includes(lowerModel, "thinking")

isThinkingModel(lowerModel) ==
  \/ Includes(lowerModel, "thinking")
  \/ Includes(lowerModel, "gemini-3")
  \/ Includes(lowerModel, "opus")

thinkingConfig(lowerModel) ==
  IF Includes(lowerModel, "gemini-3")
  THEN JObj([includeThoughts |-> JBool(TRUE), thinkingLevel |-> JStr("medium")])
  ELSE IF Includes(lowerModel, "gemini-2.5")
  THEN JObj([includeThoughts |-> JBool(TRUE), thinkingBudget |-> JNum(16000)])
  ELSE JObj([includeThoughts |-> JBool(TRUE), thinkingBudget |-> JNum(16000)])

boostTokens_Inclusive(config) ==
  IF \/ ~Truthy(Get(config, "maxOutputTokens"))
     \/ Get(config, "maxOutputTokens").v <= 8192
  THEN Set(config, "maxOutputTokens", JNum(65535))
  ELSE config

\* "Boost token limit for thinking if low"
boostTokens(config) ==
  IF \/ ~Truthy(Get(config, "maxOutputTokens"))
     \/ /\ Get(config, "maxOutputTokens").k = "number"
        /\ Get(config, "maxOutputTokens").v < 8192
  THEN Set(config, "maxOutputTokens", JNum(65535))
  ELSE config

\* "Enable thinking for supported models"
withThinking(config, lowerModel) ==
  IF isThinkingModel(lowerModel) /\ ~Truthy(Get(config, "thinkingConfig"))
  THEN boostTokens(Set(config, "thinkingConfig", thinkingConfig(lowerModel)))
  ELSE config

\* the generation config, thinking heuristic included
generationConfig(req) ==
  withThinking(baseConfig(req), ToLowerCase(Get(req, "model").v))

\* messages.find((m) => m.role === "system")
firstSystemMessage(messages) ==
  IF \E i \in DOMAIN messages : Get(messages[i], "role") = JStr("system")
  THEN messages[CHOOSE i \in DOMAIN messages :
                  /\ Get(messages[i], "role") = JStr("system")
                  /\ \A j \in 1..(i - 1) : Get(messages[j], "role") # JStr("system")]
  ELSE JUndef

\* result.systemInstruction, when there is a system message
systemInstruction(systemMessage) ==
  IF Truthy(systemMessage)
  THEN [systemInstruction |->
          JObj([parts |-> JArr(<<JObj([text |->
            JStr(extractText(Get(systemMessage, "content")))])>>)])]
  ELSE EmptyMap

\* result.tools, when the request has tools
toolsField(tools) ==
  IF Truthy(tools) /\ Len(tools.v) > 0
  THEN [tools |-> transformTools(tools.v)]
  ELSE EmptyMap

\* result.toolConfig, when the request has a tool_choice
toolConfigField(tool_choice) ==
  IF Truthy(tool_choice) THEN [toolConfig |-> toolConfig(tool_choice)]
  ELSE EmptyMap

\* the request assembled; a TypeError that transformTools raised goes up
requestOf(req, tools) ==
  IF "tools" \in DOMAIN tools /\ IsTypeError(tools["tools"]) THEN TypeError
  ELSE JObj([contents |->
               JArr(transformMessagesFrom(Get(req, "messages").v, 1, <<>>)),
             generationConfig |-> generationConfig(req)]
            @@ systemInstruction(firstSystemMessage(Get(req, "messages").v))
            @@ tools
            @@ toolConfigField(Get(req, "tool_choice")))

transformRequest(req) == requestOf(req, toolsField(Get(req, "tools")))

-----------------------------------------------------------------------------
(* The request run: transformRequest on a chat-completions request *)

\* messages of a generated request
MaxMessages == 3

UserMessage(text) == JObj([role |-> JStr("user"), content |-> JStr(text)])

ToolCall(arguments) ==
  JObj([id |-> JStr("c1"), type |-> JStr("function"),
        function |-> JObj([name |-> JStr("f"), arguments |-> JStr(arguments)])])

Messages ==
  { UserMessage("u1"),
    JObj([role |-> JStr("user"),
          content |-> JArr(<<JObj([type |-> JStr("text"), text |-> JStr("p")]),
                             JObj([type |-> JStr("image_url"),
                                   image_url |-> JObj([url |-> JStr("http://i")])]),
                             JObj([type |-> JStr("text"), text |-> JStr("q")])>>)]),
    JObj([role |-> JStr("assistant"), content |-> JStr("m1")]),
    JObj([role |-> JStr("assistant"), content |-> JStr("")]),
    JObj([role |-> JStr("assistant"), content |-> JNull,
          tool_calls |-> JArr(<<ToolCall("{\"x\": 1}"), ToolCall("{oops")>>)]),
    JObj([role |-> JStr("tool"), tool_call_id |-> JStr("c1"), name |-> JStr("f"),
          content |-> JStr("{\"ok\":true}")]),
    JObj([role |-> JStr("tool"), tool_call_id |-> JStr("c1"),
          content |-> JStr("plain text")]),
    JObj([role |-> JStr("assistant"), content |-> JNull,
          tool_calls |-> JArr(<<ToolCall("null"), ToolCall("[1]")>>)]),
    JObj([role |-> JStr("tool"), tool_call_id |-> JStr("c2"), name |-> JStr("f"),
          content |-> JStr("5")]),
    JObj([role |-> JStr("tool"), name |-> JStr("f"), content |-> JStr("no id")]),
    JObj([role |-> JStr("system"), content |-> JStr("sys")]) }

FunctionTool(parameters) ==
  JObj([type |-> JStr("function"),
        function |-> JObj([name |-> JStr("f"), description |-> JStr("does f"),
                           parameters |-> parameters])])

\* a tool entry that is not a function
OtherTool == JObj([type |-> JStr("retrieval")])

Models ==
  { "gemini-2.0-flash", "gemini-2.5-pro", "gemini-3-pro", "gemini-3-pro-thinking",
    "claude-opus-4", "Claude-Sonnet-Thinking", "gemini-2.5-flash-thinking" }

\* request.max_tokens, JUndef when the request has none
MaxTokens == {JUndef, JNum(0), JNum(100), JNum(8191), JNum(8192), JNum(20000)}

\* request.tools, JUndef when the request has none
ToolLists ==
  { JUndef, JArr(<<>>), JArr(<<OtherTool>>),
    JArr(<<FunctionTool(JObj([type |-> JStr("object")]))>>),
    JArr(<<OtherTool, FunctionTool(JObj([type |-> JStr("string")]))>>) }

ToolChoices == {JUndef, JStr("auto")}

\* the fields a request has: the ones that are not undefined
Given(fields) ==
  [key \in {f \in DOMAIN fields : fields[f] # JUndef} |-> fields[key]]

\* what a request carries besides its messages
RequestOptions ==
  { Given([model |-> JStr(model), max_tokens |-> max_tokens,
           tools |-> tools, tool_choice |-> tool_choice]) :
      model \in Models, max_tokens \in MaxTokens,
      tools \in ToolLists, tool_choice \in ToolChoices }

MessageLists(n) == UNION {[1..m -> Messages] : m \in 0..n}

\* every message list with one model, and the lists of at most one message
\* with every choice of the other fields
Requests ==
  { JObj([messages |-> JArr(ms), model |-> JStr("gemini-2.0-flash")]) :
      ms \in MessageLists(MaxMessages) }
  \cup
  { JObj([messages |-> JArr(ms)] @@ opts) :
      ms \in MessageLists(1), opts \in RequestOptions }

SchemaIdle == pc = "idle" /\ schema = JUndef /\ result = JUndef /\ result2 = JUndef

RequestInit ==
  /\ rpc = "start"
  /\ request \in Requests
  /\ areq = JUndef
  /\ SchemaIdle
  /\ StreamIdle
  /\ ResponseIdle
  /\ HandlerIdle
  /\ QuotaIdle

\* areq = transformRequest(request)
TransformRequest ==
  /\ rpc = "start"
  /\ areq' = transformRequest(request)
  /\ rpc' = "done"
  /\ UNCHANGED request
  /\ UNCHANGED <<schemaVars, streamVars, responseVars, handlerVars, quotaVars>>

RequestNext == TransformRequest

RequestSpec == RequestInit /\ [][RequestNext]_vars

-----------------------------------------------------------------------------
(* JSON.stringify, on the values the streams below carry.  An object's     *)
(* members are written in one fixed order of its keys; a member whose value *)
(* is undefined is left out, an undefined array element is written null.    *)

RECURSIVE KeySeq(_)
KeysFrom(key, keys) == <<key>> \o KeySeq(keys \ {key})
KeySeq(keys) ==
  IF keys = {} THEN <<>> ELSE KeysFrom(CHOOSE key \in keys : TRUE, keys)

Quoted(s) == "\"" \o s \o "\""

RECURSIVE JSONText(_)
RECURSIVE ElementTexts(_)
RECURSIVE MemberTexts(_, _)

ElementTexts(q) ==
  IF Len(q) = 0 THEN <<>>
  ELSE <<IF q[1] = JUndef THEN "null" ELSE JSONText(q[1])>> \o ElementTexts(Tail(q))

MemberTexts(f, keys) ==
  IF Len(keys) = 0 THEN <<>>
  ELSE <<Quoted(keys[1]) \o ":" \o JSONText(f[keys[1]])>>
         \o MemberTexts(f, Tail(keys))

JSONText(x) ==
  CASE x.k = "null" -> "null"
    [] x.k = "boolean" -> IF x.v THEN "true" ELSE "false"
    [] x.k = "number" -> ToString(x.v)
    [] x.k = "string" -> Quoted(x.v)
    [] x.k = "array" -> "[" \o JoinStrings(ElementTexts(x.v), ",") \o "]"
    [] x.k = "object" ->
         "{" \o JoinStrings(MemberTexts(x.v,
                  KeySeq({key \in DOMAIN x.v : x.v[key] # JUndef})), ",") \o "}"

\* JSON.stringify(x): undefined for undefined
JSONStringify(x) == IF x = JUndef THEN JUndef ELSE JStr(JSONText(x))

-----------------------------------------------------------------------------
(* The streaming transformer (streaming.ts) *)

\* Date.now() at createTransformState and at each transformAntigravityEvent
\* call (one reading per call)
Clock == {1000, 2000}

createTransformState(model, now) ==
  JObj([id |-> JStr("chatcmpl-" \o ToString(now)),
        created |-> JNum(now \div 1000),
        model |-> JStr(model),
        hasEmittedRole |-> JBool(FALSE),
        toolCallIndex |-> JNum(0)])

\* a variant that defaults to "stop", as the single-shot transformer does
mapFinishReason_DefaultStop(reason) ==
  CASE reason = JStr("MAX_TOKENS") -> JStr("length")
    [] reason \in {JStr("SAFETY"), JStr("RECITATION")} -> JStr("content_filter")
    [] OTHER -> JStr("stop")

mapFinishReason(reason) ==
  CASE reason = JStr("STOP") -> JStr("stop")
    [] reason = JStr("MAX_TOKENS") -> JStr("length")
    [] reason = JStr("SAFETY") -> JStr("content_filter")
    [] reason = JStr("RECITATION") -> JStr("content_filter")
    [] reason = JStr("OTHER") -> JStr("stop")
    [] OTHER -> JNull

\* the chunk envelope around one delta
streamChunk(st, delta, reason) ==
  JObj([id |-> Get(st, "id"),
        object |-> JStr("chat.completion.chunk"),
        created |-> Get(st, "created"),
        model |-> Get(st, "model"),
        choices |-> JArr(<<JObj([index |-> JNum(0),
                                 delta |-> delta,
                                 finish_reason |-> reason])>>)])

roleChunk(st) ==
  streamChunk(st, JObj([role |-> JStr("assistant"), content |-> JStr("")]), JNull)

contentChunk(st, text) == streamChunk(st, JObj([content |-> text]), JNull)

toolCallChunk(st, call, now) ==
  streamChunk(st,
    JObj([tool_calls |-> JArr(<<
      JObj([index |-> Get(st, "toolCallIndex"),
            id |-> JStr("call_" \o ToString(now) \o "_"
                          \o ToString(Get(st, "toolCallIndex").v)),
            type |-> JStr("function"),
            function |-> JObj([name |-> Get(call, "name"),
                               arguments |-> JSONStringify(Get(call, "args"))])])>>)]),
    JNull)

finishChunk(st, reason) == streamChunk(st, JObj(EmptyMap), reason)

\* A call in progress: the chunks pushed so far, the state as mutated so
\* far, and whether the call has thrown.
Run(st) == [chunks |-> <<>>, state |-> st, raised |-> FALSE]
Pushed(r, chunk) == [r EXCEPT !.chunks = Append(@, chunk)]
Thrown(r) == [r EXCEPT !.raised = TRUE]

emitRole_Never(r) == r

emitRole_Always(r) == Pushed(r, roleChunk(r.state))

\* "1. Emit Role if needed"
emitRole(r) ==
  IF ~Truthy(Get(r.state, "hasEmittedRole"))
  THEN [Pushed(r, roleChunk(r.state))
          EXCEPT !.state = Set(r.state, "hasEmittedRole", JBool(TRUE))]
  ELSE r

withText(r, part) ==
  IF Truthy(Get(part, "text"))
  THEN Pushed(r, contentChunk(r.state, Get(part, "text")))
  ELSE r

\* a variant that hands the signature to the client as content
withSignature_Emitted(r, part) ==
  IF Truthy(Get(part, "thoughtSignature"))
  THEN Pushed([r EXCEPT !.state =
                 Set(r.state, "lastThoughtSignature", Get(part, "thoughtSignature"))],
              contentChunk(r.state, Get(part, "thoughtSignature")))
  ELSE r

withSignature(r, part) ==
  IF Truthy(Get(part, "thoughtSignature"))
  THEN [r EXCEPT !.state =
          Set(r.state, "lastThoughtSignature", Get(part, "thoughtSignature"))]
  ELSE r

withFunctionCall_NoIncrement(r, part, now) ==
  IF Truthy(Get(part, "functionCall"))
  THEN Pushed(r, toolCallChunk(r.state, Get(part, "functionCall"), now))
  ELSE r

withFunctionCall(r, part, now) ==
  IF Truthy(Get(part, "functionCall"))
  THEN [Pushed(r, toolCallChunk(r.state, Get(part, "functionCall"), now))
          EXCEPT !.state = Set(r.state, "toolCallIndex",
                               JNum(Get(r.state, "toolCallIndex").v + 1))]
  ELSE r

\* one turn of the loop over the parts; reading a property of a null part
\* throws
processPart(r, part, now) ==
  IF r.raised THEN r
  ELSE IF part.k \in {"null", "undefined"} THEN Thrown(r)
  ELSE withFunctionCall(withSignature(withText(r, part), part), part, now)

RECURSIVE processParts(_, _, _)
processParts(r, parts, now) ==
  IF Len(parts) = 0 THEN r
  ELSE processParts(processPart(r, parts[1], now), Tail(parts), now)

\* "2. Process Parts": for...of throws on a value that is not iterable
withParts(r, parts, now) ==
  IF ~Truthy(parts) THEN r
  ELSE IF parts.k \in {"array", "string"} THEN processParts(r, IterableOf(parts), now)
  ELSE Thrown(r)

\* "3. Finish Reason"
withFinishReason(r, candidate) ==
  IF ~r.raised /\ Truthy(Get(candidate, "finishReason"))
  THEN Pushed(r, finishChunk(r.state, mapFinishReason(Get(candidate, "finishReason"))))
  ELSE r

\* x?.[0]
First(x) ==
  CASE x.k = "array" -> IF Len(x.v) > 0 THEN x.v[1] ELSE JUndef
    [] x.k = "string" -> IF Len(x.v) > 0 THEN JStr(SubSeq(x.v, 1, 1)) ELSE JUndef
    [] x.k = "object" -> Get(x, "0")
    [] OTHER -> JUndef

\* payload.response || payload
innerOf(payload) ==
  IF Truthy(Get(payload, "response")) THEN Get(payload, "response") ELSE payload

transformCandidate(candidate, st, now) ==
  IF ~Truthy(candidate) THEN Run(st)
  ELSE withFinishReason(
         withParts(emitRole(Run(st)),
                   Get(Get(candidate, "content"), "parts"), now),
         candidate)

\* reading payload.response throws when the payload is null
transformPayload(parsed, st, now) ==
  IF ~parsed.ok THEN Run(st)
  ELSE IF parsed.val = JNull THEN Thrown(Run(st))
  ELSE transformCandidate(First(Get(innerOf(parsed.val), "candidates")), st, now)

transformAntigravityEvent(event, st, now) ==
  IF ~Truthy(Get(event, "data")) \/ Get(event, "data") = JStr("[DONE]")
  THEN Run(st)
  ELSE transformPayload(JSONParse(Get(event, "data")), st, now)

-----------------------------------------------------------------------------
(* A stream: events handed one after the other to transformAntigravityEvent *)
(* with the state createTransformState made.                                *)

MaxEvents == 3

TextPart(text) == JObj([text |-> JStr(text)])
CallPart(name) ==
  JObj([functionCall |-> JObj([name |-> JStr(name), args |-> JObj(EmptyMap)])])
SignedPart(text) == JObj([text |-> JStr(text), thoughtSignature |-> JStr("sig")])
SignaturePart(signature) == JObj([thoughtSignature |-> JStr(signature)])

Candidate(parts) == JObj([content |-> JObj([parts |-> JArr(parts)])])
Finished(parts, reason) ==
  JObj([content |-> JObj([parts |-> JArr(parts)]), finishReason |-> JStr(reason)])
Payload(candidate) == JObj([candidates |-> JArr(<<candidate>>)])
Wrapped(candidate) == JObj([response |-> Payload(candidate), traceId |-> JStr("t")])

StreamPayloads ==
  { JObj(EmptyMap),
    JNull,
    Payload(Candidate(<<TextPart("a")>>)),
    Payload(Candidate(<<CallPart("f")>>)),
    Payload(Candidate(<<SignaturePart("sig2")>>)),
    Wrapped(Candidate(<<SignedPart("b"), CallPart("f"), CallPart("g")>>)),
    Wrapped(Finished(<<TextPart("c"), CallPart("h")>>, "STOP")),
    Payload(JObj([finishReason |-> JStr("MAX_TOKENS")])) }

SSEEvent(data) == JObj([data |-> JStr(data)])

Events ==
  {SSEEvent(""), SSEEvent("[DONE]"), SSEEvent("{\"candidates\":")}
  \cup {SSEEvent(JSONText(payload)) : payload \in StreamPayloads}

RequestAndSchemaIdle == RequestIdle /\ SchemaIdle

StreamInit ==
  /\ spc = "open"
  /\ state \in {createTransformState("gemini-3-pro", now) : now \in Clock}
  /\ events = <<>>
  /\ chunks = JUndef
  /\ emitted = <<>>
  /\ RequestAndSchemaIdle
  /\ ResponseIdle
  /\ HandlerIdle
  /\ QuotaIdle

\* the call returned r.chunks, or threw; a throw ends the stream
Returned(event, r) ==
  /\ events' = Append(events, event)
  /\ state' = r.state
  /\ chunks' = IF r.raised THEN TypeError ELSE JArr(r.chunks)
  /\ emitted' = IF r.raised THEN emitted ELSE emitted \o r.chunks
  /\ spc' = IF r.raised THEN "failed" ELSE "open"

\* chunks = transformAntigravityEvent(event, state)
TransformEvent ==
  /\ spc = "open"
  /\ Len(events) < MaxEvents
  /\ \E event \in Events, now \in Clock :
       Returned(event, transformAntigravityEvent(event, state, now))
  /\ UNCHANGED <<schemaVars, requestVars, responseVars, handlerVars, quotaVars>>

StreamNext == TransformEvent

StreamSpec == StreamInit /\ [][StreamNext]_vars

-----------------------------------------------------------------------------
(* The single-shot transformer (gemini-to-openai.ts) *)

mapFinishReasonResponse_AlwaysStop(reason) == JStr("stop")

\* mapFinishReason of gemini-to-openai.ts
mapFinishReasonResponse(reason) ==
  CASE reason = JStr("STOP") -> JStr("stop")
    [] reason = JStr("MAX_TOKENS") -> JStr("length")
    [] reason = JStr("SAFETY") -> JStr("content_filter")
    [] reason = JStr("RECITATION") -> JStr("content_filter")
    [] reason = JStr("OTHER") -> JStr("stop")
    [] OTHER -> JStr("stop")

responseToolCall(call, index, now) ==
  JObj([id |-> JStr("call_" \o ToString(now) \o "_" \o ToString(index)),
        type |-> JStr("function"),
        function |-> JObj([name |-> Get(call, "name"),
                           arguments |-> JSONStringify(Get(call, "args"))])])

\* content and toolCalls as the loop over the parts builds them
Collected == [content |-> "", toolCalls |-> <<>>, raised |-> FALSE]

\* a variant that keeps the text of the last part only
collectText_Last(acc, part) ==
  IF Truthy(Get(part, "text"))
  THEN [acc EXCEPT !.content = ToJSString(Get(part, "text"))]
  ELSE acc

collectText(acc, part) ==
  IF Truthy(Get(part, "text"))
  THEN [acc EXCEPT !.content = @ \o ToJSString(Get(part, "text"))]
  ELSE acc

collectCall(acc, part, now) ==
  IF Truthy(Get(part, "functionCall"))
  THEN [acc EXCEPT !.toolCalls =
          Append(@, responseToolCall(Get(part, "functionCall"), Len(acc.toolCalls), now))]
  ELSE acc

collectPart(acc, part, now) ==
  IF acc.raised THEN acc
  ELSE IF part.k \in {"null", "undefined"} THEN Thrown(acc)
  ELSE collectCall(collectText(acc, part), part, now)

RECURSIVE collectParts(_, _, _)
collectParts(acc, parts, now) ==
  IF Len(parts) = 0 THEN acc
  ELSE collectParts(collectPart(acc, parts[1], now), Tail(parts), now)

\* candidate?.content?.parts || [], iterated
collectFrom(parts, now) ==
  IF ~Truthy(parts) THEN Collected
  ELSE IF parts.k \in {"array", "string"}
  THEN collectParts(Collected, IterableOf(parts), now)
  ELSE Thrown(Collected)

openAIResponse(acc, finishReason, model, now) ==
  IF acc.raised THEN TypeError
  ELSE JObj([id |-> JStr("chatcmpl-" \o ToString(now)),
             object |-> JStr("chat.completion"),
             created |-> JNum(now \div 1000),
             model |-> model,
             choices |-> JArr(<<
               JObj([index |-> JNum(0),
                     message |-> JObj([
                       role |-> JStr("assistant"),
                       content |-> IF acc.content # "" THEN JStr(acc.content) ELSE JNull,
                       tool_calls |-> IF Len(acc.toolCalls) > 0
                                      THEN JArr(acc.toolCalls) ELSE JUndef]),
                     finish_reason |-> finishReason])>>),
             usage |-> JObj([prompt_tokens |-> JNum(0),
                             completion_tokens |-> JNum(0),
                             total_tokens |-> JNum(0)])])

responseOfCandidate(candidate, model, now) ==
  openAIResponse(collectFrom(Get(Get(candidate, "content"), "parts"), now),
                 mapFinishReasonResponse(Get(candidate, "finishReason")),
                 model, now)

\* reading antigravityResponse.response throws on null and undefined
transformResponse(antigravityResponse, model, now) ==
  IF antigravityResponse.k \in {"null", "undefined"} THEN TypeError
  ELSE responseOfCandidate(
         First(Get(innerOf(antigravityResponse), "candidates")), model, now)

-----------------------------------------------------------------------------
(* One upstream response translated both ways: by transformResponse, and   *)
(* as the data of one stream event by transformAntigravityEvent.            *)

MaxParts == 2

FinishReasons == {"STOP", "MAX_TOKENS", "SAFETY", "RECITATION", "OTHER", "BLOCKLIST"}

ResponseParts == {TextPart("a"), TextPart(""), CallPart("f"), SignedPart("b")}

PartLists(n) == UNION {[1..m -> ResponseParts] : m \in 0..n}

Candidates ==
  {Candidate(parts) : parts \in PartLists(MaxParts)}
  \cup {Finished(parts, reason) : parts \in PartLists(MaxParts), reason \in FinishReasons}

Upstreams ==
  {JObj(EmptyMap)}
  \cup {Payload(candidate) : candidate \in Candidates}
  \cup {Wrapped(candidate) : candidate \in Candidates}

ResponseInit ==
  /\ upstream \in Upstreams
  /\ response = JUndef
  /\ delivered = 0
  /\ spc = "open"
  /\ state \in {createTransformState("gemini-3-pro", now) : now \in Clock}
  /\ events = <<>>
  /\ chunks = JUndef
  /\ emitted = <<>>
  /\ RequestAndSchemaIdle
  /\ HandlerIdle
  /\ QuotaIdle

\* response = transformResponse(upstream, originalModel)
TransformResponse ==
  /\ response = JUndef
  /\ \E now \in Clock :
       response' = transformResponse(upstream, Get(state, "model"), now)
  /\ UNCHANGED <<upstream, delivered>>
  /\ UNCHANGED <<schemaVars, requestVars, streamVars, handlerVars, quotaVars>>

\* the same response arriving as the data of one event of the stream
StreamResponse ==
  /\ spc = "open"
  /\ events = <<>>
  /\ \E now \in Clock :
       Returned(SSEEvent(JSONText(upstream)),
                transformAntigravityEvent(SSEEvent(JSONText(upstream)), state, now))
  /\ UNCHANGED <<schemaVars, requestVars, responseVars, handlerVars, quotaVars>>

ResponseNext == TransformResponse \/ StreamResponse

ResponseSpec == ResponseInit /\ [][ResponseNext]_vars

-----------------------------------------------------------------------------
(* parseSSEChunk (streaming.ts) *)

Whitespace == {" ", "\t", "\r", "\n"}

RECURSIVE TrimStart(_)
TrimStart(s) ==
  IF Len(s) > 0 /\ SubSeq(s, 1, 1) \in Whitespace THEN TrimStart(Drop(s, 1)) ELSE s

RECURSIVE TrimEnd(_)
TrimEnd(s) ==
  IF Len(s) > 0 /\ SubSeq(s, Len(s), Len(s)) \in Whitespace
  THEN TrimEnd(SubSeq(s, 1, Len(s) - 1))
  ELSE s

Trim(s) == TrimEnd(TrimStart(s))

\* s.indexOf(":"), counted from 0; -1 when there is none
IndexOfColon(s) ==
  IF \E i \in 1..Len(s) : SubSeq(s, i, i) = ":"
  THEN (CHOOSE i \in 1..Len(s) :
          /\ SubSeq(s, i, i) = ":"
          /\ \A j \in 1..(i - 1) : SubSeq(s, j, j) # ":") - 1
  ELSE -1

\* s.split(/\r?\n/): a "\r" right before the "\n" belongs to the separator
WithoutCR(line) ==
  IF Len(line) > 0 /\ SubSeq(line, Len(line), Len(line)) = "\r"
  THEN SubSeq(line, 1, Len(line) - 1)
  ELSE line

\* s.split(sep): the pieces between the occurrences of sep, found from
\* the left
Least(positions) == CHOOSE i \in positions : \A j \in positions : i <= j
FirstAt(s, sep) ==
  IF Includes(s, sep)
  THEN Least({i \in 1..(Len(s) - Len(sep) + 1) : SubSeq(s, i, i + Len(sep) - 1) = sep})
  ELSE 0

RECURSIVE Split(_, _)
RECURSIVE SplitAt(_, _, _)
SplitAt(s, sep, i) ==
  IF i = 0 THEN <<s>>
  ELSE <<SubSeq(s, 1, i - 1)>> \o Split(Drop(s, i + Len(sep) - 1), sep)
Split(s, sep) == SplitAt(s, sep, FirstAt(s, sep))

WithoutCRs(lines) ==
  [i \in DOMAIN lines |-> IF i < Len(lines) THEN WithoutCR(lines[i]) ELSE lines[i]]

SplitLines(s) == WithoutCRs(Split(s, "\n"))

\* events and currentEvent
Parsing == [events |-> <<>>, currentEvent |-> JObj(EmptyMap)]

\* "Empty line = dispatch event"
dispatch(p) ==
  [events |-> IF Truthy(Get(p.currentEvent, "data"))
              THEN Append(p.events, p.currentEvent) ELSE p.events,
   currentEvent |-> JObj(EmptyMap)]

dataWith(currentEvent, value) ==
  (IF Truthy(Get(currentEvent, "data")) THEN Get(currentEvent, "data").v \o "\n" ELSE "")
  \o value

withField(p, field, value) ==
  CASE field = "data" ->
         [p EXCEPT !.currentEvent =
            Set(p.currentEvent, "data", JStr(dataWith(p.currentEvent, value)))]
    [] field = "event" ->
         [p EXCEPT !.currentEvent = Set(p.currentEvent, "event", JStr(value))]
    [] field = "id" ->
         [p EXCEPT !.currentEvent = Set(p.currentEvent, "id", JStr(value))]
    [] OTHER -> p

fieldAt(p, line, colonIndex) ==
  IF colonIndex = -1 THEN p
  ELSE withField(p, Trim(SubSeq(line, 1, colonIndex)),
                 TrimStart(SubSeq(line, colonIndex + 2, Len(line))))

parseLine(p, line) ==
  IF Trim(line) = "" THEN dispatch(p) ELSE fieldAt(p, line, IndexOfColon(line))

RECURSIVE parseLines(_, _)
parseLines(p, lines) ==
  IF Len(lines) = 0 THEN p
  ELSE parseLines(parseLine(p, lines[1]), Tail(lines))

\* "Handle trailing event without empty line"
parseSSEChunk(chunk) == dispatch(parseLines(Parsing, SplitLines(chunk))).events

-----------------------------------------------------------------------------
(* handleStreamingRequest (routes/chat.ts): the stream callback *)

Terminator == "data: [DONE]\n\n"

\* `data: ${JSON.stringify(chunk)}\n\n`
Frame(chunk) == "data: " \o JSONText(chunk) \o "\n\n"

RECURSIVE Frames(_)
Frames(q) == IF Len(q) = 0 THEN <<>> ELSE <<Frame(q[1])>> \o Frames(Tail(q))

bufferAfter_Dropped(parts) == ""

\* buffer = parts.pop() || ""
bufferAfter(parts) == parts[Len(parts)]

\* the stream as the callback has it: the transform state, the events
\* transformed, the chunks returned, the frames written, and whether a call
\* has thrown
Handling(st, evs, out, ws) ==
  [state |-> st, events |-> evs, chunks |-> JUndef, emitted |-> out,
   written |-> ws, raised |-> FALSE]

\* chunks = transformAntigravityEvent(event, state), each chunk written
handled(h, event, r) ==
  [state |-> r.state,
   events |-> Append(h.events, event),
   chunks |-> IF r.raised THEN TypeError ELSE JArr(r.chunks),
   emitted |-> IF r.raised THEN h.emitted ELSE h.emitted \o r.chunks,
   written |-> IF r.raised THEN h.written ELSE h.written \o Frames(r.chunks),
   raised |-> r.raised]

RECURSIVE handleEvents(_, _, _)
handleEvents(h, evs, now) ==
  IF Len(evs) = 0 \/ h.raised THEN h
  ELSE handleEvents(
         handled(h, evs[1], transformAntigravityEvent(evs[1], h.state, now)),
         Tail(evs), now)

\* "Process complete events (split by double newline)"
RECURSIVE handleParts(_, _, _)
handleParts(h, parts, now) ==
  IF Len(parts) = 0 \/ h.raised THEN h
  ELSE IF Trim(parts[1]) = "" THEN handleParts(h, Tail(parts), now)
  ELSE handleParts(handleEvents(h, parseSSEChunk(parts[1] \o "\n\n"), now),
                   Tail(parts), now)

\* "Flush any remaining buffer"
flushed(h, rest, now) ==
  IF Trim(rest) # "" THEN handleEvents(h, parseSSEChunk(rest), now) ELSE h

Left_NoFinally(h, position, rest, data) ==
  /\ state' = h.state
  /\ events' = h.events
  /\ chunks' = h.chunks
  /\ emitted' = h.emitted
  /\ buffer' = data
  /\ unread' = rest
  /\ written' = IF ~h.raised /\ position \in {"ended", "closed"}
                THEN Append(h.written, Terminator) ELSE h.written
  /\ spc' = IF h.raised THEN "failed" ELSE position

\* what the callback leaves behind; the finally block writes the terminator
\* when the loop is left, by break or by a throw
Left(h, position, rest, data) ==
  /\ state' = h.state
  /\ events' = h.events
  /\ chunks' = h.chunks
  /\ emitted' = h.emitted
  /\ buffer' = data
  /\ unread' = rest
  /\ written' = IF h.raised \/ position # "open"
                THEN Append(h.written, Terminator) ELSE h.written
  /\ spc' = IF h.raised THEN "failed" ELSE position

Here == [Handling(state, events, emitted, written) EXCEPT !.chunks = chunks]

-----------------------------------------------------------------------------
(* A streaming response: the body arrives in reads cut anywhere.            *)

MaxSegments == 3

\* Date.now() in a streaming response: the bodies below carry no function
\* call, so the reading shows only in the stream id
HandlerClock == {1000}

Segments ==
  { "data: 1",
    "data: null",
    "data: " \o JSONText(Payload(JObj(EmptyMap))),
    "\n",
    "\r\n",
    "\n\n" }

RECURSIVE Concat(_)
Concat(q) == IF Len(q) = 0 THEN "" ELSE q[1] \o Concat(Tail(q))

Bodies ==
  {JNull} \cup
  {JStr(Concat(q)) : q \in UNION {[1..n -> Segments] : n \in 0..MaxSegments}}

HandlerInit ==
  /\ spc = "open"
  /\ state \in {createTransformState("gemini-3-pro", now) : now \in HandlerClock}
  /\ events = <<>>
  /\ chunks = JUndef
  /\ emitted = <<>>
  /\ body \in Bodies
  /\ unread = IF body = JNull THEN "" ELSE body.v
  /\ buffer = ""
  /\ written = <<>>
  /\ RequestAndSchemaIdle
  /\ ResponseIdle
  /\ QuotaIdle

\* if (!reader): the terminator and nothing else
NoReader ==
  /\ spc = "open"
  /\ body = JNull
  /\ Left(Here, "closed", unread, buffer)
  /\ UNCHANGED body
  /\ UNCHANGED <<schemaVars, requestVars, responseVars, quotaVars>>

\* reader.read() gave the next n characters of the body
Received(parts, rest, now) ==
  Left(handleParts(Here, SubSeq(parts, 1, Len(parts) - 1), now),
       "open", rest, bufferAfter(parts))

Read ==
  /\ spc = "open"
  /\ body # JNull
  /\ \E n \in 1..Len(unread), now \in HandlerClock :
       Received(Split(buffer \o SubSeq(unread, 1, n), "\n\n"),
                Drop(unread, n), now)
  /\ UNCHANGED body
  /\ UNCHANGED <<schemaVars, requestVars, responseVars, quotaVars>>

\* reader.read() gave done
EndOfBody ==
  /\ spc = "open"
  /\ body # JNull
  /\ unread = ""
  /\ \E now \in HandlerClock : Left(flushed(Here, buffer, now), "ended", unread, buffer)
  /\ UNCHANGED body
  /\ UNCHANGED <<schemaVars, requestVars, responseVars, quotaVars>>

\* reader.read() rejected
ReadError ==
  /\ spc = "open"
  /\ body # JNull
  /\ Left(Here, "failed", unread, buffer)
  /\ UNCHANGED body
  /\ UNCHANGED <<schemaVars, requestVars, responseVars, quotaVars>>

HandlerNext == NoReader \/ Read \/ EndOfBody \/ ReadError

HandlerSpec == HandlerInit /\ [][HandlerNext]_vars

-----------------------------------------------------------------------------
(* mergeAllOf on its own: one node with an allOf list *)

MaxBranches == 2

StringSchema == JObj([type |-> JStr("string")])
IntegerSchema == JObj([type |-> JStr("integer")])

\* the branches of an allOf list
Branches ==
  { JObj(EmptyMap),
    JObj([properties |-> JObj([a |-> StringSchema])]),
    JObj([properties |-> JObj([a |-> IntegerSchema, b |-> StringSchema]),
          required |-> JArr(<<JStr("a")>>)]),
    JObj([required |-> JArr(<<JStr("a"), JStr("b")>>)]),
    JObj([type |-> JStr("object"), description |-> JStr("first")]),
    JObj([type |-> JStr("string"), description |-> JStr("")]),
    JObj([description |-> JStr("third"), required |-> JArr(<<JStr("b")>>)]) }

\* what the node holds next to its allOf list
OwnFields ==
  { JObj(EmptyMap),
    JObj([required |-> JArr(<<JStr("b"), JStr("z")>>)]),
    JObj([type |-> JStr("array"), description |-> JStr("own")]),
    JObj([properties |-> JObj([z |-> StringSchema]),
          required |-> JArr(<<JStr("a")>>)]) }

BranchLists == UNION {[1..n -> Branches] : n \in 0..MaxBranches}

AllOfNodes == {Set(own, "allOf", JArr(list)) : own \in OwnFields, list \in BranchLists}

MergeInit ==
  /\ pc = "start"
  /\ schema \in AllOfNodes
  /\ result = JUndef
  /\ result2 = JUndef
  /\ RequestIdle
  /\ StreamIdle
  /\ ResponseIdle
  /\ HandlerIdle
  /\ QuotaIdle

\* result = mergeAllOf(schema)
Merge ==
  /\ pc = "start"
  /\ result' = mergeAllOf(schema)
  /\ pc' = "merged"
  /\ UNCHANGED <<schema, result2>>
  /\ UNCHANGED <<requestVars, streamVars, responseVars, handlerVars, quotaVars>>

MergeNext == Merge

MergeSpec == MergeInit /\ [][MergeNext]_vars

-----------------------------------------------------------------------------
(* parseSSEChunk on its own: one text, parsed whole *)

MaxLines == 4

\* the lines of a text; the last is the blank line that dispatches
Lines == {"data:", "data: a", "data:b", "id: 7", ""}

LineLists == UNION {[1..n -> Lines] : n \in 0..MaxLines}

Texts == {JStr(JoinStrings(ls, "\n")) : ls \in LineLists}

ParseInit ==
  /\ spc = "start"
  /\ body \in Texts
  /\ state = JUndef
  /\ events = <<>>
  /\ chunks = JUndef
  /\ emitted = <<>>
  /\ unread = ""
  /\ buffer = ""
  /\ written = <<>>
  /\ RequestAndSchemaIdle
  /\ ResponseIdle
  /\ QuotaIdle

\* events = parseSSEChunk(body)
Parse ==
  /\ spc = "start"
  /\ events' = parseSSEChunk(body.v)
  /\ spc' = "parsed"
  /\ UNCHANGED <<state, chunks, emitted, body, unread, buffer, written>>
  /\ UNCHANGED <<schemaVars, requestVars, responseVars, quotaVars>>

ParseNext == Parse

ParseSpec == ParseInit /\ [][ParseNext]_vars

-----------------------------------------------------------------------------
(* One candidate's parts, translated whole and streamed in slices *)

MaxSplitParts == 3

SplitParts == {TextPart("a"), TextPart(""), CallPart("f"),
               JObj([text |-> JStr("c"),
                     functionCall |-> JObj([name |-> JStr("g"),
                                            args |-> JObj([x |-> JNum(1)])])])}

SplitUpstreams ==
  {Payload(Candidate(parts)) :
     parts \in UNION {[1..n -> SplitParts] : n \in 0..MaxSplitParts}}

UpstreamParts == Get(Get(First(Get(upstream, "candidates")), "content"), "parts").v

SplitInit ==
  /\ upstream \in SplitUpstreams
  /\ response = JUndef
  /\ delivered = 0
  /\ spc = "open"
  /\ state \in {createTransformState("gemini-3-pro", now) : now \in Clock}
  /\ events = <<>>
  /\ chunks = JUndef
  /\ emitted = <<>>
  /\ RequestAndSchemaIdle
  /\ HandlerIdle
  /\ QuotaIdle

\* the next n parts of the candidate arriving as one event of the stream
StreamSlice ==
  /\ spc = "open"
  /\ \E n \in 1..(Len(UpstreamParts) - delivered), now \in Clock :
       /\ Returned(SSEEvent(JSONText(Payload(Candidate(
                     SubSeq(UpstreamParts, delivered + 1, delivered + n))))),
                   transformAntigravityEvent(
                     SSEEvent(JSONText(Payload(Candidate(
                       SubSeq(UpstreamParts, delivered + 1, delivered + n))))),
                     state, now))
       /\ delivered' = delivered + n
  /\ UNCHANGED <<upstream, response>>
  /\ UNCHANGED <<schemaVars, requestVars, handlerVars, quotaVars>>

SplitNext == TransformResponse \/ StreamSlice

SplitSpec == SplitInit /\ [][SplitNext]_vars

-----------------------------------------------------------------------------
(* Quota protection and the chat-completions route *)

SOFT_QUOTA_THRESHOLD_PERCENT == 90
QUOTA_CACHE_TTL_MS == 5 * 60 * 1000

MODEL_MAPPINGS ==
  ("claude-3-5-sonnet-20241022" :> "claude-3-5-sonnet@20241022")
  @@ ("claude-3-5-sonnet-v2-20241022" :> "claude-3-5-sonnet-v2@20241022")
  @@ ("claude-sonnet-4-20250514" :> "claude-sonnet-4@20250514")
  @@ ("claude-sonnet-4.5-20250514" :> "claude-sonnet-4-5@20250514")
  @@ ("claude-opus-4.5-20250514" :> "claude-opus-4-5-20250514")
  @@ ("claude-sonnet-4.5" :> "claude-sonnet-4-5@20250514")
  @@ ("claude-sonnet-4" :> "claude-sonnet-4@20250514")
  @@ ("claude-opus-4.5" :> "claude-opus-4-5-20250514")
  @@ ("gemini-2.5-flash" :> "gemini-2.5-flash")
  @@ ("gemini-2.5-pro" :> "gemini-2.5-pro")
  @@ ("gemini-3-flash" :> "gemini-3-flash")
  @@ ("gemini-3-pro" :> "gemini-3-pro-high")

resolveModel(model) ==
  IF model \in DOMAIN MODEL_MAPPINGS THEN MODEL_MAPPINGS[model] ELSE model

familyOf(lower) ==
  IF Includes(lower, "claude") THEN "claude"
  ELSE IF Includes(lower, "gemini-3") \/ Includes(lower, "gemini-2.5-pro")
  THEN (IF Includes(lower, "flash") THEN "gemini-flash" ELSE "gemini-pro")
  ELSE IF Includes(lower, "gemini")
  THEN (IF Includes(lower, "flash") THEN "gemini-flash" ELSE "gemini-pro")
  ELSE "unknown"

getModelFamily(modelId) == familyOf(ToLowerCase(modelId))

\* A QuotaInfo is held as its remainingFraction in hundredths (10 is 0.10),
\* so that remainingFraction * 100 is the number itself; resetTime, which
\* only words the refusal, is left out.
Lower(a, b) == IF a < b THEN a ELSE b

\* mergedModels.set for one bucket, and for its original spelling too
setBucket(merged, bucket, key, remainingFraction) ==
  IF key \in DOMAIN merged /\ bucket.modelId # key
  THEN (bucket.modelId :> remainingFraction) @@ (key :> remainingFraction) @@ merged
  ELSE (key :> remainingFraction) @@ merged

overlayBucket(merged, bucket, key) ==
  setBucket(merged, bucket, key,
            IF key \in DOMAIN merged
            THEN Lower(merged[key], bucket.remainingFraction)
            ELSE bucket.remainingFraction)

\* "2. Overlay with more accurate bucket data"
RECURSIVE overlayBuckets(_, _)
overlayBuckets(merged, buckets) ==
  IF Len(buckets) = 0 THEN merged
  ELSE overlayBuckets(overlayBucket(merged, buckets[1], ToLowerCase(buckets[1].modelId)),
                      Tail(buckets))

\* the cache refreshQuotaCache leaves, given what the two endpoints answered
refreshQuotaCache(modelsMap, quotaBuckets, now) ==
  [models |-> overlayBuckets(modelsMap, quotaBuckets), updatedAt |-> now]

isCacheFresh(cache, now) ==
  cache # JNull /\ now - cache.updatedAt < QUOTA_CACHE_TTL_MS

\* "Find the minimum quota in this family"
familyMinQuota(models, entries) ==
  IF entries = {} THEN JUndef
  ELSE JNum(CHOOSE low \in {models[id] : id \in entries} :
              \A id \in entries : low <= models[id])

\* quotaInfo || familyMinQuota
effectiveQuota(models, modelId, family) ==
  IF modelId \in DOMAIN models THEN JNum(models[modelId])
  ELSE IF family # "unknown"
  THEN familyMinQuota(models, {id \in DOMAIN models : getModelFamily(id) = family})
  ELSE JUndef

overThreshold_Strict(usedPercent, thresholdPercent) == usedPercent > thresholdPercent

\* usedPercent >= thresholdPercent
overThreshold(usedPercent, thresholdPercent) == usedPercent >= thresholdPercent

quotaCheckResult(effective, thresholdPercent) ==
  IF effective = JUndef
  THEN [allowed |-> TRUE, remainingPercent |-> JUndef]
  ELSE [allowed |-> ~overThreshold(100 - effective.v, thresholdPercent),
        remainingPercent |-> effective]

\* checkModelQuota once the cache is fresh
checkModelQuota(modelId, cache, thresholdPercent) ==
  IF cache = JNull THEN [allowed |-> TRUE, remainingPercent |-> JUndef]
  ELSE quotaCheckResult(effectiveQuota(cache.models, modelId, getModelFamily(modelId)),
                        thresholdPercent)

MaxRequests == 2
MaxTicks == 2

\* body.model
ChatModels == {"gemini-3-pro", "gemini-2.0-pro", "gpt-4"}

\* loadTokens()
Tokens ==
  { JNull,
    JObj([accessToken |-> JStr("t"), projectId |-> JStr("p")]),
    JObj([projectId |-> JStr("p")]) }

\* what fetchModels and fetchUserQuota can answer
CachedIds == {"gemini-3-pro-high", "gemini-2.5-pro", "gemini-3-flash"}
Fractions == {10, 11}
ModelsMaps == UNION {[ids -> Fractions] : ids \in SUBSET CachedIds}
BucketLists ==
  { <<>>,
    <<[modelId |-> "Gemini-2.5-Pro", remainingFraction |-> 50],
      [modelId |-> "gemini-3-flash", remainingFraction |-> 5]>> }

QuotaInit ==
  /\ quotaCache = JNull
  /\ wall = 0
  /\ chat = JUndef
  /\ RequestAndSchemaIdle
  /\ StreamIdle
  /\ ResponseIdle
  /\ HandlerIdle

Served == IF chat = JUndef THEN 0 ELSE chat.served
Position == IF chat = JUndef THEN "none" ELSE chat.pc

\* chat.post up to loadTokens(): the body is read, the model resolved
Post ==
  /\ Position \in {"none", "answered"}
  /\ Served < MaxRequests
  /\ \E model \in ChatModels, tokens \in Tokens :
       chat' = [pc |-> IF Truthy(Get(tokens, "accessToken")) /\ Truthy(Get(tokens, "projectId"))
                       THEN "checking" ELSE "transforming",
                model |-> resolveModel(model),
                tokens |-> tokens,
                check |-> JUndef,
                calls |-> <<>>,
                status |-> 0,
                served |-> Served + 1]
  /\ UNCHANGED <<quotaCache, wall>>
  /\ UNCHANGED <<schemaVars, requestVars, streamVars, responseVars, handlerVars>>

\* the handler after `await checkModelQuota(...)`: 429 when refused
Checked(quotaCheck) ==
  [chat EXCEPT !.check = quotaCheck,
               !.calls = Append(@, "checkModelQuota"),
               !.pc = IF quotaCheck.allowed THEN "transforming" ELSE "answered",
               !.status = IF quotaCheck.allowed THEN 0 ELSE 429]

CheckedWith(cache) ==
  /\ quotaCache' = cache
  /\ chat' = Checked(checkModelQuota(chat.model, cache, SOFT_QUOTA_THRESHOLD_PERCENT))

\* checkModelQuota, the refresh of a stale cache included
CheckQuota ==
  /\ Position = "checking"
  /\ IF isCacheFresh(quotaCache, wall)
     THEN CheckedWith(quotaCache)
     ELSE \E modelsMap \in ModelsMaps, quotaBuckets \in BucketLists :
            CheckedWith(refreshQuotaCache(modelsMap, quotaBuckets, wall))
  /\ UNCHANGED wall
  /\ UNCHANGED <<schemaVars, requestVars, streamVars, responseVars, handlerVars>>

\* transformRequest({...body, model: antigravityModel})
Transform ==
  /\ Position = "transforming"
  /\ chat' = [chat EXCEPT !.calls = Append(@, "transformRequest"), !.pc = "sending"]
  /\ UNCHANGED <<quotaCache, wall>>
  /\ UNCHANGED <<schemaVars, requestVars, streamVars, responseVars, handlerVars>>

\* sendChatRequest: it throws without tokens or project id (the route then
\* answers 500), otherwise the upstream answers
Send ==
  /\ Position = "sending"
  /\ \E status \in IF Truthy(Get(chat.tokens, "projectId")) THEN {200} ELSE {500} :
       chat' = [chat EXCEPT !.calls = Append(@, "sendChatRequest"),
                            !.pc = "answered",
                            !.status = status]
  /\ UNCHANGED <<quotaCache, wall>>
  /\ UNCHANGED <<schemaVars, requestVars, streamVars, responseVars, handlerVars>>

\* time passes: half the cache's lifetime
Tick ==
  /\ wall < MaxTicks * (QUOTA_CACHE_TTL_MS \div 2)
  /\ wall' = wall + (QUOTA_CACHE_TTL_MS \div 2)
  /\ UNCHANGED <<quotaCache, chat>>
  /\ UNCHANGED <<schemaVars, requestVars, streamVars, responseVars, handlerVars>>

QuotaNext == Post \/ CheckQuota \/ Transform \/ Send \/ Tick

QuotaSpec == QuotaInit /\ [][QuotaNext]_vars

-----------------------------------------------------------------------------
(* Reading an output tree *)

\* The schema nodes of a tree: the root, every property schema, every items
\* schema, at any depth.
RECURSIVE Nodes(_)
Nodes(x) ==
  IF x.k = "array" THEN UNION {Nodes(x.v[i]) : i \in DOMAIN x.v}
  ELSE IF x.k = "object"
  THEN {x}
       \cup (IF Get(x, "properties").k = "object"
             THEN UNION {Nodes(Get(x, "properties").v[key]) :
                           key \in DOMAIN Get(x, "properties").v}
             ELSE {})
       \cup (IF "items" \in DOMAIN x.v THEN Nodes(x.v["items"]) ELSE {})
  ELSE {}

\* every tree cleanSchema has returned so far
Outputs ==
  (IF pc \in {"cleaned", "recleaned"} /\ ~IsTypeError(result) THEN {result} ELSE {})
  \cup (IF pc = "recleaned" /\ ~IsTypeError(result2) THEN {result2} ELSE {})

OutputNodes == UNION {Nodes(out) : out \in Outputs}

-----------------------------------------------------------------------------
(* Claims *)

\* the keys and the type names of the accepted dialect
DialectKeys == {"type", "properties", "items", "required", "description", "enum"}
DialectTypes == {"STRING", "OBJECT", "ARRAY", "BOOLEAN", "NUMBER", "INTEGER"}

\* does every entry of n.required name a key of n.properties, the list not
\* being empty
RequiredNamesProperties(n) ==
  LET required == Get(n, "required")
      properties == Get(n, "properties")
  IN /\ IsArray(required)
     /\ Len(required.v) > 0
     /\ properties.k = "object"
     /\ \A i \in DOMAIN required.v :
          IsString(required.v[i]) /\ required.v[i].v \in DOMAIN properties.v

\* C1: cleanSchema is idempotent: cleaning an output again gives the same
\* tree.
C1_Idempotent == pc = "recleaned" => result2 = result

C4_OutputInDialect ==
  \A n \in OutputNodes :
    /\ DOMAIN n.v \subseteq DialectKeys
    /\ "type" \in DOMAIN n.v =>
         IsString(n.v["type"]) /\ n.v["type"].v \in DialectTypes

\* C5: at every node of every output a required list is not empty
\* and each entry names a key of the node's properties map.
C5_RequiredNamesProperties ==
  \A n \in OutputNodes :
    "required" \in DOMAIN n.v => RequiredNamesProperties(n)

\* C6: cleanSchema never raises, and a non-object argument gives the default
\* string schema.
C6_NeverRaises ==
  pc # "start" =>
    /\ ~IsTypeError(result)
    /\ NotASchema(schema) => result = JObj([type |-> JStr("STRING")])

IsConstOnly(s) == s.k = "object" /\ DOMAIN s.v = {"const"}

\* C7 as stated: {const: v} is cleaned to exactly {type: "STRING",
\* enum: [String(v)]}.
C7_ConstGivesTypeAndEnum ==
  (pc # "start" /\ IsConstOnly(schema)) =>
    result = JObj([type |-> JStr("STRING"),
                   enum |-> JArr(<<JStr(ToJSString(schema.v["const"]))>>)])

\* C7, amended: {const: v} is cleaned to {type: "STRING", enum: [String(v)],
\* description: "(Allowed: " + String(v) + ")"}.
C7_ConstGivesTypeEnumAndHint ==
  (pc # "start" /\ IsConstOnly(schema)) =>
    result = JObj([type |-> JStr("STRING"),
                   enum |-> JArr(<<JStr(ToJSString(schema.v["const"]))>>),
                   description |->
                     JStr("(Allowed: " \o ToJSString(schema.v["const"]) \o ")")])

C7_Witness ==
  /\ pc = "cleaned"
  /\ schema = ConstSchema(JStr("x"))
  /\ Get(result, "enum") = JArr(<<JStr("x")>>)

IsConstUnion(s) ==
  /\ s.k = "object" /\ DOMAIN s.v = {"anyOf"}
  /\ IsArray(s.v["anyOf"]) /\ Len(s.v["anyOf"].v) > 0
  /\ \A i \in DOMAIN s.v["anyOf"].v : IsConstOnly(s.v["anyOf"].v[i])

\* C8: an anyOf whose branches are all plain constants is cleaned to exactly
\* {type: "STRING", enum: [the constants, as strings, in branch order]}.
C8_ConstUnionCollapses ==
  (pc # "start" /\ IsConstUnion(schema)) =>
    result = JObj([type |-> JStr("STRING"),
                   enum |-> JArr([i \in DOMAIN schema.v["anyOf"].v |->
                                    JStr(ToJSString(schema.v["anyOf"].v[i].v["const"]))])])

C8_Witness ==
  /\ pc = "cleaned"
  /\ schema = JObj([anyOf |-> JArr(<<ConstSchema(JStr("a")), ConstSchema(JStr("b"))>>)])
  /\ result = JObj([type |-> JStr("STRING"),
                    enum |-> JArr(<<JStr("a"), JStr("b")>>)])

\* the content nodes transformRequest returned
Contents == Get(areq, "contents").v

\* what transformMessage makes of each message that is not a system message
\* and yields a node, in message order
RECURSIVE TranslatedFrom(_, _)
TranslatedFrom(messages, i) ==
  IF i > Len(messages) THEN <<>>
  ELSE (IF Get(messages[i], "role") # JStr("system")
        THEN pushContent(<<>>, transformMessage(messages[i]))
        ELSE <<>>) \o TranslatedFrom(messages, i + 1)

Translated == TranslatedFrom(Get(request, "messages").v, 1)

\* the parts of T[i..j], one after the other
RECURSIVE PartsOfRun(_, _, _)
PartsOfRun(T, i, j) ==
  IF i > j THEN <<>> ELSE Get(T[i], "parts").v \o PartsOfRun(T, i + 1, j)

\* the positions where a run of one role starts
RunStarts(T) ==
  {i \in DOMAIN T : i = 1 \/ Get(T[i - 1], "role") # Get(T[i], "role")}

\* the last position of the run that starts at i
RunEnd(T, i) ==
  CHOOSE j \in i..Len(T) :
    /\ \A m \in i..j : Get(T[m], "role") = Get(T[i], "role")
    /\ j = Len(T) \/ Get(T[j + 1], "role") # Get(T[i], "role")

\* C9: no two adjacent entries of the contents list have the same role.
C9_RolesAlternate ==
  rpc = "done" =>
    \A i \in 1..(Len(Contents) - 1) :
      Get(Contents[i], "role") # Get(Contents[i + 1], "role")

\* three user-role messages in a row gave one node
C9_Witness ==
  /\ rpc = "done"
  /\ Len(Get(request, "messages").v) = 3
  /\ \A i \in 1..3 : Get(Get(request, "messages").v[i], "role") = JStr("user")
  /\ Len(Contents) = 1

\* contents holds one node for each run of T, the n-th run's the n-th, with
\* the run's parts in order
RunsMerged(contents, T) ==
  /\ Len(contents) = Cardinality(RunStarts(T))
  /\ \A i \in RunStarts(T) :
       contents[Cardinality({m \in RunStarts(T) : m <= i})] =
         JObj([role |-> Get(T[i], "role"),
               parts |-> JArr(PartsOfRun(T, i, RunEnd(T, i)))])

\* C10: every run of consecutive messages of one internal role gives one
\* content node, the n-th run the n-th node, whose parts are the parts of
\* the run's messages in message order.
C10_RunsMergeInOrder == rpc = "done" => RunsMerged(Contents, Translated)

\* two user messages in a row, of one and of two parts, gave one node whose
\* three parts are in message order
C10_Witness ==
  /\ rpc = "done"
  /\ Len(Get(request, "messages").v) = 2
  /\ Get(request, "messages").v[1] = UserMessage("u1")
  /\ Contents = <<JObj([role |-> JStr("user"),
                        parts |-> JArr(<<JObj([text |-> JStr("u1")]),
                                         JObj([text |-> JStr("p")]),
                                         JObj([text |-> JStr("q")])>>)])>>

\* the messages of the request
RequestMessages == Get(request, "messages").v

\* the parts of every node of contents, in order
RECURSIVE AllParts(_)
AllParts(contents) ==
  IF Len(contents) = 0 THEN <<>>
  ELSE Get(Head(contents), "parts").v \o AllParts(Tail(contents))

IsFunctionResponse(part) == "functionResponse" \in DOMAIN part.v
IsToolMessage(msg) == Get(msg, "role") = JStr("tool")
IsIdentifiedToolMessage(msg) ==
  IsToolMessage(msg) /\ Truthy(Get(msg, "tool_call_id"))

\* every function-result part of contents is in a user-role node
ResponsesInUserNodes(contents) ==
  \A n \in DOMAIN contents :
    (\E j \in DOMAIN Get(contents[n], "parts").v :
       IsFunctionResponse(Get(contents[n], "parts").v[j]))
    => Get(contents[n], "role") = JStr("user")

\* the tool messages T and the function-result parts F answer one another,
\* in order, by name
ResponsesAnswer(T, F) ==
  /\ Len(F) = Len(T)
  /\ \A k \in DOMAIN T :
       k \in DOMAIN F =>
         Get(Get(F[k], "functionResponse"), "name") =
           (IF Truthy(Get(T[k], "name")) THEN Get(T[k], "name")
            ELSE JStr("unknown_tool"))

UnparseableBody(msg) ==
  IsString(Get(msg, "content")) /\ ~JSONParse(Get(msg, "content")).ok

\* the k-th function-result part of F wraps the body of T[k] when that body
\* does not parse
FallbacksWrapBody(T, F) ==
  /\ Len(F) = Len(T)
  /\ \A k \in DOMAIN T :
       (k \in DOMAIN F /\ UnparseableBody(T[k])) =>
         Get(Get(F[k], "functionResponse"), "response") =
           JObj([content |-> Get(T[k], "content")])

NoFunctionTool(req) ==
  /\ IsArray(Get(req, "tools"))
  /\ \A i \in DOMAIN Get(req, "tools").v :
       Get(Get(req, "tools").v[i], "type") # JStr("function")

ModelOf(req) == Get(req, "model").v

OneUserMessage(req) ==
  /\ Len(Get(req, "messages").v) = 1
  /\ Get(Get(req, "messages").v[1], "role") = JStr("user")

BuiltConfig == Get(areq, "generationConfig")

HasKeyword(model) ==
  \E word \in {"thinking", "gemini-3", "opus"} : Includes(ToLowerCase(model), word)

Requested(req) == Get(req, "max_tokens")

\* C15: model "gemini-3-pro-thinking" gets thinkingLevel "medium"; for every
\* model the thinking heuristic matches, maxOutputTokens is 65535 when
\* max_tokens is absent or below 8192 and the requested value otherwise.
C15_ThinkingLevelAndTokenBoost ==
  (rpc = "done" /\ HasKeyword(ModelOf(request)))
    => /\ ModelOf(request) = "gemini-3-pro-thinking"
            => Get(Get(BuiltConfig, "thinkingConfig"), "thinkingLevel") = JStr("medium")
       /\ Get(BuiltConfig, "maxOutputTokens") =
            IF Requested(request) = JUndef \/ Requested(request).v < 8192
            THEN JNum(65535)
            ELSE Requested(request)

C15_Witness ==
  /\ rpc = "done"
  /\ ModelOf(request) = "gemini-3-pro-thinking"
  /\ Requested(request) = JUndef
  /\ Get(Get(BuiltConfig, "thinkingConfig"), "thinkingLevel") = JStr("medium")
  /\ Get(BuiltConfig, "maxOutputTokens") = JNum(65535)

\* Reading the chunks of a stream
DeltaOf(chunk) == Get(Get(chunk, "choices").v[1], "delta")
FinishOf(chunk) == Get(Get(chunk, "choices").v[1], "finish_reason")
IsPreamble(chunk) ==
  DeltaOf(chunk) = JObj([role |-> JStr("assistant"), content |-> JStr("")])
IsToolCallChunk(chunk) == Get(DeltaOf(chunk), "tool_calls") # JUndef
ToolCallOf(chunk) == Get(DeltaOf(chunk), "tool_calls").v[1]

\* the event's data is JSON text whose first candidate is there
CandidateIn(parsed) ==
  /\ parsed.ok
  /\ parsed.val # JNull
  /\ Truthy(First(Get(innerOf(parsed.val), "candidates")))
CarriesCandidate(event) ==
  /\ Get(event, "data") \notin {JStr(""), JStr("[DONE]")}
  /\ CandidateIn(JSONParse(Get(event, "data")))

FirstCall == spc # "idle" /\ Len(events) = 1

PreambleOnceAndFirst ==
  \A i \in DOMAIN emitted : IsPreamble(emitted[i]) <=> i = 1

RoleFlagStays ==
  (spc = "open" /\ Get(state, "hasEmittedRole") = JBool(TRUE))
    => Get(state, "hasEmittedRole")' = JBool(TRUE)

\* C17: on one stream the role-preamble chunk is emitted at most once and
\* before every other chunk, and hasEmittedRole never goes back to false.
C17_PreambleOnceFirstAndFlagMonotone ==
  [](spc # "idle" => PreambleOnceAndFirst) /\ [][RoleFlagStays]_vars

C17_Witness ==
  /\ Len(events) = MaxEvents
  /\ \A i \in DOMAIN events : CarriesCandidate(events[i])
  /\ Len(emitted) > MaxEvents
  /\ IsPreamble(emitted[1])

ToolCallChunks == SelectSeq(emitted, IsToolCallChunk)

FinishTable ==
  ("STOP" :> "stop") @@ ("MAX_TOKENS" :> "length") @@ ("SAFETY" :> "content_filter")
  @@ ("RECITATION" :> "content_filter") @@ ("OTHER" :> "stop")

UpstreamReason == Get(First(Get(innerOf(upstream), "candidates")), "finishReason")
ReasonInTable == UpstreamReason.k = "string" /\ UpstreamReason.v \in DOMAIN FinishTable
Responded == response # JUndef
Streamed == upstream # JUndef /\ Len(events) = 1 /\ delivered = 0
ResponseReason == Get(Get(response, "choices").v[1], "finish_reason")
StreamedReason == FinishOf(emitted[Len(emitted)])

IsPrefix(q, whole) == Len(q) <= Len(whole) /\ q = SubSeq(whole, 1, Len(q))

Streaming == spc # "idle" /\ body.k = "string"

\* the read so far ended inside a data line: the buffer holds its start
CutInDataLine ==
  /\ StartsWith(buffer, "data:")
  /\ ~Includes(buffer, "\n")
  /\ unread # ""
  /\ SubSeq(unread, 1, 1) \notin {"\r", "\n"}

\* C20: however the SSE text is cut into reads, the events the handler's
\* buffering hands on are, in order, the first events of one parseSSEChunk
\* call on the whole text, and all of them once the body has ended.
C20_BufferedReadsParseAsWhole ==
  Streaming =>
    /\ IsPrefix(events, parseSSEChunk(body.v))
    /\ spc = "ended" => events = parseSSEChunk(body.v)

C20_Witness ==
  /\ Streaming
  /\ spc = "open"
  /\ Len(events) > 0
  /\ CutInDataLine
  /\ IsPrefix(events, parseSSEChunk(body.v))
  /\ Len(parseSSEChunk(body.v)) > Len(events)

Terminators == SelectSeq(written, LAMBDA w : w = Terminator)

\* C21: a streaming response that is over (no body reader, end of the body,
\* error while reading or transforming) has written the terminator exactly
\* once, as its last write, and one that is not over has not written it; at
\* the end of the body every event of the body, those of the buffered
\* remainder included, was transformed and its chunks written before it.
C21_TerminatorOnceAndLast ==
  spc # "idle" =>
    /\ spc = "open" => Len(Terminators) = 0
    /\ spc \in {"ended", "failed", "closed"} =>
         /\ Len(Terminators) = 1
         /\ written[Len(written)] = Terminator
    /\ spc = "ended" =>
         /\ events = parseSSEChunk(body.v)
         /\ written = Frames(emitted) \o <<Terminator>>

\* the body ended with an event still in the buffer; it was written before
\* the terminator
C21_Witness ==
  /\ spc = "ended"
  /\ Trim(buffer) # ""
  /\ Len(parseSSEChunk(buffer)) > 0
  /\ Len(written) > 1
  /\ written[Len(written)] = Terminator

\* the properties map of the argument and of the result
PropertiesIn == Get(schema, "properties")
PropertiesOut == Get(result, "properties")

\* C22: the properties map of the argument keeps every property named like
\* an unsupported keyword, and the result's map has no key that was not a
\* property of the argument (the placeholder of an empty object aside).
C22_KeywordNamedPropertiesKept ==
  (pc \in {"cleaned", "recleaned"} /\ PropertiesIn.k = "object"
     /\ ~IsTypeError(result)) =>
    /\ PropertiesOut.k = "object"
    /\ \A name \in DOMAIN PropertiesIn.v :
         name \in Range(UNSUPPORTED_KEYWORDS) => name \in DOMAIN PropertiesOut.v
    /\ DOMAIN PropertiesOut.v \subseteq
         DOMAIN PropertiesIn.v \cup {EMPTY_SCHEMA_PLACEHOLDER_NAME}

\* What the allOf list of the node asks for
BranchesOf == Get(schema, "allOf").v
BranchProperties(i) ==
  IF Get(BranchesOf[i], "properties").k = "object"
  THEN Get(BranchesOf[i], "properties").v ELSE EmptyMap
BranchRequired(i) ==
  IF IsArray(Get(BranchesOf[i], "required"))
  THEN Range(Get(BranchesOf[i], "required").v) ELSE {}
LastWith(name) ==
  CHOOSE i \in DOMAIN BranchesOf :
    /\ name \in DOMAIN BranchProperties(i)
    /\ \A j \in DOMAIN BranchesOf : j > i => name \notin DOMAIN BranchProperties(j)
UnionOfProperties ==
  [name \in UNION {DOMAIN BranchProperties(i) : i \in DOMAIN BranchesOf} |->
     BranchProperties(LastWith(name))[name]]
UnionOfRequired ==
  (IF IsArray(Get(schema, "required")) THEN Range(Get(schema, "required").v) ELSE {})
    \cup UNION {BranchRequired(i) : i \in DOMAIN BranchesOf}
With(field) == {i \in DOMAIN BranchesOf : Truthy(Get(BranchesOf[i], field))}
FirstWith(field) == CHOOSE i \in With(field) : \A j \in With(field) : i <= j
RequiredOut == IF IsArray(Get(result, "required")) THEN Get(result, "required").v ELSE <<>>
MergedAsListed ==
  /\ \E i \in DOMAIN BranchesOf : Truthy(Get(BranchesOf[i], "properties")) =>
       Get(result, "properties") = JObj(UnionOfProperties)
  /\ Range(RequiredOut) = UnionOfRequired
  /\ \A i, j \in DOMAIN RequiredOut : RequiredOut[i] = RequiredOut[j] => i = j
  /\ \A field \in {"type", "description"} :
       With(field) # {} =>
         Get(result, field) = Get(BranchesOf[FirstWith(field)], field)

\* C23: a node with an allOf list comes out of the merge with the union of the
\* branches' properties (a later branch winning a shared key), a required list
\* that is the duplicate-free union of its own and the branches' lists, the
\* first non-empty type and description of the branches, and no allOf key.
C23_AllOfMergedAndRemoved ==
  pc = "merged" =>
    /\ MergedAsListed
    /\ "allOf" \notin DOMAIN result.v

\* The value of each data line of Lines
ValueOfLine == ("data:" :> "") @@ ("data: a" :> "a") @@ ("data:b" :> "b")
DataLineLists == UNION {[1..n -> DOMAIN ValueOfLine] : n \in 1..MaxLines}
ValuesOf(ls) == [i \in DOMAIN ls |-> ValueOfLine[ls[i]]]

\* C24: a text of data lines only, once parsed, gives either no event or one
\* event whose data is the lines' values in order with one newline between
\* each consecutive pair, an empty value included.
C24_DataLinesJoinedByNewline ==
  spc = "parsed" =>
    \A ls \in DataLineLists :
      (body.v = JoinStrings(ls, "\n") /\ events # <<>>) =>
        /\ Len(events) = 1
        /\ Get(events[1], "data") = JStr(JoinStrings(ValuesOf(ls), "\n"))

\* the call of this step was given an event that carries no first candidate
CalledWithoutCandidate ==
  /\ spc = "open"
  /\ Len(events') = Len(events) + 1
  /\ ~CarriesCandidate(events'[Len(events')])
ReturnedNothing == chunks' = JArr(<<>>) /\ state' = state

\* C25: a call whose event has empty data, the [DONE] sentinel, text that is
\* not JSON, or JSON without a first candidate returns the empty list, raises
\* nothing and leaves every field of the stream state as it was.
C25_NoCandidateNoChunkNoChange ==
  [][CalledWithoutCandidate => ReturnedNothing]_vars

IsTerminal(chunk) == DeltaOf(chunk) = JObj(EmptyMap)
TerminalChunks == SelectSeq(emitted, IsTerminal)
ReasonOutsideTable ==
  UpstreamReason.k = "string" /\ UpstreamReason.v \notin DOMAIN FinishTable
ReasonAbsent == UpstreamReason = JUndef

\* C26: for a finish reason outside the table the stream ends with one
\* terminal chunk (empty delta) whose finish_reason is null and the
\* single-shot response reports "stop"; with no finish reason the stream has
\* no terminal chunk and the single-shot response reports "stop".
C26_UnmappedAndAbsentReasons ==
  upstream # JUndef =>
    /\ (ReasonOutsideTable /\ Streamed) =>
         /\ Len(TerminalChunks) = 1
         /\ IsTerminal(emitted[Len(emitted)])
         /\ StreamedReason = JNull
    /\ (ReasonAbsent /\ Streamed) =>
         /\ Len(TerminalChunks) = 0
         /\ \A i \in DOMAIN emitted : FinishOf(emitted[i]) = JNull
    /\ ((ReasonOutsideTable \/ ReasonAbsent) /\ Responded) =>
         ResponseReason = JStr("stop")

C26_Witness ==
  /\ Responded
  /\ Streamed
  /\ UpstreamReason = JStr("BLOCKLIST")
  /\ Len(emitted) > 2
  /\ StreamedReason = JNull
  /\ ResponseReason = JStr("stop")

\* a JSON value with every thoughtSignature member taken out
RECURSIVE Unsigned(_)
Unsigned(x) ==
  CASE x.k = "object" ->
         JObj([key \in (DOMAIN x.v) \ {"thoughtSignature"} |-> Unsigned(x.v[key])])
    [] x.k = "array" -> JArr([i \in DOMAIN x.v |-> Unsigned(x.v[i])])
    [] OTHER -> x
Forgetting(st) == Del(st, "lastThoughtSignature")

\* the first candidate of parsed event data, its parts, the signatures on them
CandidateOf(parsed) ==
  IF CandidateIn(parsed) THEN First(Get(innerOf(parsed.val), "candidates")) ELSE JUndef
PartsOf(candidate) == IterableOf(Get(Get(candidate, "content"), "parts"))
HasSignature(part) == Truthy(Get(part, "thoughtSignature"))
Latest(signed, before) ==
  IF Len(signed) > 0 THEN Get(signed[Len(signed)], "thoughtSignature") ELSE before
OnlySignatures(candidate, parts) ==
  /\ Len(parts) > 0
  /\ \A i \in DOMAIN parts : DOMAIN parts[i].v = {"thoughtSignature"}
  /\ ~Truthy(Get(candidate, "finishReason"))

\* the call of this step returned what the call on the unsigned data and the
\* state without its signature returns, and left the same state but for the
\* signature
SameAs(r) ==
  /\ chunks' = (IF r.raised THEN TypeError ELSE JArr(r.chunks))
  /\ Forgetting(state') = Forgetting(r.state)
UnsignedRun(event, parsed, st, now) ==
  IF ~Truthy(Get(event, "data")) \/ Get(event, "data") = JStr("[DONE]")
  THEN Run(st)
  ELSE transformPayload([parsed EXCEPT !.val = Unsigned(@)], st, now)
BlindTo(event, parsed, candidate, parts) ==
  /\ \E now \in Clock : SameAs(UnsignedRun(event, parsed, Forgetting(state), now))
  /\ OnlySignatures(candidate, parts) =>
       /\ IsArray(chunks')
       /\ \A i \in DOMAIN chunks'.v : IsPreamble(chunks'.v[i])
  /\ Get(state', "lastThoughtSignature") =
       Latest(SelectSeq(parts, HasSignature), Get(state, "lastThoughtSignature"))
BlindToParsed(event, parsed) ==
  BlindTo(event, parsed, CandidateOf(parsed), PartsOf(CandidateOf(parsed)))
\* JSON.parse of the data of each event of the stream
ParsedData == [event \in Events |-> JSONParse(Get(event, "data"))]
SignatureBlind ==
  (spc = "open" /\ Len(events') = Len(events) + 1) =>
    BlindToParsed(events'[Len(events')], ParsedData[events'[Len(events')]])

\* C27: each call returns the chunks it returns for the same event and state
\* with every thought signature taken out, so streams that differ in
\* signatures only emit the same chunks; a part that is a signature and
\* nothing else adds no chunk; and lastThoughtSignature, absent at first,
\* is after each call the latest signature seen so far.
C27_ChunksBlindToSignatures ==
  /\ []((spc = "open" /\ Len(events) = 0) => Get(state, "lastThoughtSignature") = JUndef)
  /\ [][SignatureBlind]_vars

C27_Witness ==
  /\ spc = "open"
  /\ Len(events) = MaxEvents
  /\ events[1] = SSEEvent(JSONText(Wrapped(Candidate(<<SignedPart("b"), CallPart("f"), CallPart("g")>>))))
  /\ events[2] = SSEEvent(JSONText(Payload(Candidate(<<SignaturePart("sig2")>>))))
  /\ events[3] = SSEEvent(JSONText(Payload(Candidate(<<TextPart("a")>>))))
  /\ Get(state, "lastThoughtSignature") = JStr("sig2")
  /\ Len(emitted) = 5

\* what the stream said and what the single response says
IsContentChunk(chunk) == Get(DeltaOf(chunk), "content").k = "string"
ContentDeltas ==
  [i \in DOMAIN SelectSeq(emitted, IsContentChunk) |->
     Get(DeltaOf(SelectSeq(emitted, IsContentChunk)[i]), "content").v]
MessageOf(r) == Get(Get(r, "choices").v[1], "message")
ContentString(message) ==
  IF Get(message, "content") = JNull THEN "" ELSE Get(message, "content").v
ToolCallsOf(message) ==
  IF IsArray(Get(message, "tool_calls")) THEN Get(message, "tool_calls").v ELSE <<>>
SameCall(call, streamed, i) ==
  /\ Get(Get(streamed, "function"), "name") = Get(Get(call, "function"), "name")
  /\ Get(Get(streamed, "function"), "arguments") = Get(Get(call, "function"), "arguments")
  /\ Get(streamed, "index") = JNum(i - 1)
AllDelivered == spc = "open" /\ Responded /\ delivered = Len(UpstreamParts)

\* C28: once every part of the candidate has gone through the stream, in
\* whatever slices, the content deltas concatenated are the content of the
\* single response (null counting as the empty string) and the tool-call
\* chunks carry the names and argument strings of its tool_calls, in order,
\* each with its list position as index.
C28_SlicesAgreeWithWhole ==
  AllDelivered =>
    /\ Concat(ContentDeltas) = ContentString(MessageOf(response))
    /\ Len(ToolCallChunks) = Len(ToolCallsOf(MessageOf(response)))
    /\ \A i \in DOMAIN ToolCallChunks :
         SameCall(ToolCallsOf(MessageOf(response))[i], ToolCallOf(ToolCallChunks[i]), i)

C28_Witness ==
  /\ AllDelivered
  /\ Len(events) = 2
  /\ delivered = 3
  /\ Len(ToolCallChunks) = 2
  /\ Len(ContentString(MessageOf(response))) = 2
  /\ Get(ToolCallOf(ToolCallChunks[2]), "index") = JNum(1)

IsFunctionCall(part) == "functionCall" \in DOMAIN part.v
ArgsOf(part) == Get(Get(part, "functionCall"), "args")
ResponseOf(part) == Get(Get(part, "functionResponse"), "response")

\* C29: in the request transformRequest built, the args of every
\* function-call part and the response of every function-result part is a
\* JSON object, whatever the argument string or the tool-result content was.
C29_ArgsAndResponsesAreObjects ==
  (rpc = "done" /\ ~IsTypeError(areq)) =>
    \A i \in DOMAIN AllParts(Contents) :
      /\ IsFunctionCall(AllParts(Contents)[i]) => ArgsOf(AllParts(Contents)[i]).k = "object"
      /\ IsFunctionResponse(AllParts(Contents)[i]) =>
           ResponseOf(AllParts(Contents)[i]).k = "object"

\* What the cache holds for the model being handled: its own entry, or the
\* entries of its family
Family ==
  [id \in CachedIds \cup {"Gemini-2.5-Pro"} \cup {resolveModel(model) : model \in ChatModels}
     |-> getModelFamily(id)]
EntriesFor(model) ==
  IF model \in DOMAIN quotaCache.models THEN {quotaCache.models[model]}
  ELSE {quotaCache.models[id] :
          id \in {i \in DOMAIN quotaCache.models :
                    Family[model] # "unknown" /\ Family[i] = Family[model]}}
LowestOf(remaining) == CHOOSE low \in remaining : \A other \in remaining : low <= other
OverQuota(model) ==
  /\ EntriesFor(model) # {}
  /\ 100 - LowestOf(EntriesFor(model)) >= SOFT_QUOTA_THRESHOLD_PERCENT
QuotaChecked == chat # JUndef /\ chat.check # JUndef
Ran(name) == \E i \in DOMAIN chat.calls : chat.calls[i] = name

====
